---- MODULE Spec2Model ----
(***************************************************************************)
(* A model of the garage management system's access control:              *)
(*   - the standalone server garage_server.py: rate limiter, admin and    *)
(*     customer login, session store, CRUD handlers;                      *)
(*   - the Flask application app/app1.py: JWT login, logout, password     *)
(*     change and the delete endpoints.                                   *)
(* Time is the wall clock in whole seconds.                               *)
(***************************************************************************)
EXTENDS Integers, Sequences, FiniteSets, TLC

VARIABLES
    now,                \* datetime.now(), seconds
    login_attempts,     \* garage_server.login_attempts: identifier -> list of timestamps
    users,              \* table users
    sessions,           \* table sessions
    customers,          \* table customers
    customer_users,     \* table customer_users
    customer_sessions,  \* table customer_sessions
    next_token,         \* the next value secrets.token_urlsafe() hands out
    issued,             \* token -> the login it was returned to (history)
    response,           \* the answer of the last login or health request
    vehicles,           \* table vehicles
    services,           \* table services
    next_id,            \* sqlite_sequence: the next AUTOINCREMENT id of each table
    foreign_keys,       \* whether the SQLite build enforces foreign keys by default
    technicians,        \* table technicians: id, status, current_workload
    garage_bookings,    \* table bookings of garage_server.py: id, customer_id, technician
    request,            \* the last CRUD request and what it did
    app_users,          \* app1.py: table users (class User), by id
    jwts,               \* app1.py: the access tokens create_access_token has signed
    clients,            \* app1.py: table clients
    inventory,          \* app1.py: table inventory
    bookings,           \* app1.py: table bookings
    payments,           \* app1.py: table payments
    app_response,       \* app1.py: the answer of the last request
    logged_out,         \* history: the tokens whose logout request has completed
    superseded,         \* history: the tokens issued before their user changed password
    next_reset_token,   \* app1.py: the next value secrets.token_urlsafe(32) hands out
    locked_once,        \* history: the users a failed login has locked
    api_services,       \* routers/services.py: the services table of the FastAPI app
    api_response,       \* routers/services.py: the last request and its status
    reset_history,      \* history: per reset token handed out, its user, the time of
                        \* issue and the number of password changes it has made
    in_flight,          \* app1.py: per login request being served by a thread of its
                        \* own, where it is, the users row its session loaded and
                        \* what it will write and answer
    wrong_attempts      \* history: per user, the logins that failed on the password
                        \* since the last successful login, password reset or end of
                        \* a lockout

authVars == <<login_attempts, sessions, customer_sessions, next_token, issued>>
dbVars == <<users, customers, customer_users>>
shopVars == <<technicians, garage_bookings>>
crudVars == <<vehicles, services, next_id, foreign_keys, request, shopVars>>
serverVars == <<authVars, dbVars, response, crudVars>>
appData == <<clients, inventory, bookings, payments>>
flaskVars == <<app_users, jwts, appData, app_response, logged_out, superseded,
               next_reset_token, locked_once, reset_history, wrong_attempts>>
fastVars == <<api_services, api_response>>
vars == <<now, serverVars, flaskVars, fastVars, in_flight>>

\* Python's None as the result of a verify_*_session call, and a request without a token.
None == [id |-> 0]

NoToken == 0

\* ---------------------------------------------------------------- constants
MAX_LOGIN_ATTEMPTS == 5
LOGIN_ATTEMPT_WINDOW == 300
SESSION_SECONDS == 86400
JWT_ACCESS_TOKEN_EXPIRES == 86400
MAX_FAILED_LOGINS == 5
LOCK_SECONDS == 1800
RESET_TOKEN_SECONDS == 3600

\* ---------------------------------------------------------------- bounds
MaxTokens == 1
MaxRecorded == 5
MaxShortNow == 300
MaxNow == 129600
MaxCustomerId == 4
MaxVehicleId == 5
MaxServiceId == 5
MaxAppNow == 86400
MaxJwts == 2
MaxRows == 2
MaxBookingId == 4
MaxWorkload == 2
MaxLockNow == 1800
MaxResetTokens == 2
MaxLockResets == 1
MaxResetNow == 5400
MaxApiNow == 2
MaxRequests == 6

ShortTick == LOGIN_ATTEMPT_WINDOW \div 2
LongTick == SESSION_SECONDS \div 2
LockTick == LOCK_SECONDS \div 2

\* ---------------------------------------------------------------- inputs
SharedName == "john.smith@email.com"
OtherEmail == "sarah.j@email.com"
PaddedAdmin == " admin "
MixedCaseEmail == " John.Smith@Email.com"
Usernames == {PaddedAdmin, SharedName}
Emails == {MixedCaseEmail}

\* str.strip() and str.strip().lower(), on the strings the requests carry.
strip(s) ==
    IF s = PaddedAdmin THEN "admin"
    ELSE IF s = " Admin " THEN "Admin"
    ELSE IF s = MixedCaseEmail THEN "John.Smith@Email.com"
    ELSE s

strip_lower(s) ==
    IF strip(s) = "Admin" THEN "admin"
    ELSE IF strip(s) = "John.Smith@Email.com" THEN SharedName
    ELSE strip(s)
SessionUsernames == {"admin"}
SessionEmails == {SharedName, OtherEmail}
Passwords == {"", "admin123", "customer123"}

\* ---------------------------------------------------------------- passwords
PBKDF2(password, salt) == <<"pbkdf2_hmac_sha256", password, salt>>

hash_password(password, salt) == [salt |-> salt, pwd_hash |-> PBKDF2(password, salt)]

verify_password(password, stored_hash) ==
    PBKDF2(password, stored_hash.salt) = stored_hash.pwd_hash

\* ---------------------------------------------------------------- rate limiter
\* Faulty variant, for sensitivity: the pruning keeps an attempt that is exactly the window old.
KeptAttempts_inclusive(identifier) ==
    SelectSeq(login_attempts[identifier], LAMBDA ts : now - ts <= LOGIN_ATTEMPT_WINDOW)

\* The attempts of identifier that the pruning of check_rate_limit keeps.
KeptAttempts(identifier) ==
    SelectSeq(login_attempts[identifier], LAMBDA ts : now - ts < LOGIN_ATTEMPT_WINDOW)

\* Faulty variant, for sensitivity: the limit is reached one attempt late.
check_rate_limit_off_by_one(identifier) ==
    IF identifier \in DOMAIN login_attempts
    THEN ~(Len(KeptAttempts(identifier)) > MAX_LOGIN_ATTEMPTS)
    ELSE TRUE

\* check_rate_limit: its answer.
check_rate_limit(identifier) ==
    IF identifier \in DOMAIN login_attempts
    THEN ~(Len(KeptAttempts(identifier)) >= MAX_LOGIN_ATTEMPTS)
    ELSE TRUE

\* check_rate_limit: login_attempts after its pruning.
PrunedAttempts(identifier) ==
    IF identifier \in DOMAIN login_attempts
    THEN [login_attempts EXCEPT ![identifier] = KeptAttempts(identifier)]
    ELSE login_attempts

\* record_login_attempt on the dictionary la.
record_login_attempt(la, identifier) ==
    LET base == IF identifier \in DOMAIN la THEN la ELSE la @@ (identifier :> <<>>)
    IN  [base EXCEPT ![identifier] = Append(base[identifier], now)]

\* The number of timestamps the dictionary la holds.
RECURSIVE Recorded(_, _)
Recorded(la, keys) ==
    IF keys = {} THEN 0
    ELSE LET k == CHOOSE k \in keys : TRUE
         IN  Len(la[k]) + Recorded(la, keys \ {k})

\* ---------------------------------------------------------------- sessions
\* Faulty variant, for sensitivity: the session lifetime is left out.
create_session_no_ttl(user_id) ==
    [user_id |-> user_id, token |-> next_token, expires_at |-> now]

create_session(user_id) ==
    [user_id |-> user_id, token |-> next_token, expires_at |-> now + SESSION_SECONDS]

\* Faulty variant, for sensitivity: the SELECT does not compare expires_at.
verify_session_rows_no_expiry(token) ==
    {u \in users : \E s \in sessions : s.token = token /\ s.user_id = u.id}

\* The rows of verify_session's SELECT ... JOIN.
verify_session_rows(token) ==
    {u \in users : \E s \in sessions :
        s.token = token /\ s.user_id = u.id /\ s.expires_at > now}

verify_session(token) ==
    IF token = NoToken \/ verify_session_rows(token) = {} THEN None
    ELSE CHOOSE u \in verify_session_rows(token) : TRUE

create_customer_session(customer_id) ==
    [customer_id |-> customer_id, token |-> next_token, expires_at |-> now + SESSION_SECONDS]

\* Faulty variant, for sensitivity: a LEFT JOIN, which keeps the session of a customer
\* that is gone.
verify_customer_session_rows_left_join(token) ==
    {c \in customers : \E cs \in customer_sessions :
        cs.token = token /\ cs.customer_id = c.id /\ cs.expires_at > now}
    \cup {[id |-> cs.customer_id, email |-> ""] : cs \in
            {x \in customer_sessions : /\ x.token = token /\ x.expires_at > now
                                        /\ \A c \in customers : c.id # x.customer_id}}

verify_customer_session_rows(token) ==
    {c \in customers : \E cs \in customer_sessions :
        cs.token = token /\ cs.customer_id = c.id /\ cs.expires_at > now}

verify_customer_session(token) ==
    IF token = NoToken \/ verify_customer_session_rows(token) = {} THEN None
    ELSE CHOOSE c \in verify_customer_session_rows(token) : TRUE

\* Faulty variant, for sensitivity: the sweep runs a session lifetime ahead.
ExpiredRows_ahead(table) == {s \in table : s.expires_at < now + SESSION_SECONDS}

\* The rows cleanup_expired_sessions deletes from a session table.
ExpiredRows(table) == {s \in table : s.expires_at < now}

\* ---------------------------------------------------------------- responses
Reply(status, token, lookup, valid) ==
    [status |-> status, token |-> token, lookup |-> lookup, valid |-> valid]

\* Faulty variant, for sensitivity: the admin login uses the customer namespace.
AdminIdentifier_shared(username) == "customer_" \o username

\* What a CRUD request did: the token it carried, whether that token resolved through
\* verify_session when it arrived, whether its SQL statements ran, its status and the
\* ids of the rows it returned.
Did(handler, token, executed, status, rows) ==
    [handler |-> handler, token |-> token, authenticated |-> verify_session(token) # None,
     executed |-> executed, status |-> status, rows |-> rows]

NoRequest ==
    [handler |-> "", token |-> NoToken, authenticated |-> FALSE,
     executed |-> FALSE, status |-> 0, rows |-> {}]

AdminIdentifier(username) == "admin_" \o username

CustomerIdentifier(email) == "customer_" \o email

\* The users rows that handle_login's SELECT and verify_password accept.
AdminMatch(username, password) ==
    {u \in users : u.username = username /\ verify_password(password, u.password_hash)}

\* Faulty variant, for sensitivity: the stored hash is not compared.
CustomerMatch_unverified(email, password) ==
    {cu \in customer_users : /\ cu.email = email
                             /\ \E c \in customers : c.id = cu.customer_id}

\* The customer_users rows that handle_customer_login's SELECT and verify_password accept.
CustomerMatch(email, password) ==
    {cu \in customer_users : /\ cu.email = email
                             /\ \E c \in customers : c.id = cu.customer_id
                             /\ verify_password(password, cu.password_hash)}

\* History of create_session and create_customer_session: the token handed out, the
\* login name it was handed out for, the id of that account's row and the time.
Issue(kind, name) ==
    LET id == IF kind = "admin"
              THEN (CHOOSE u \in users : u.username = name).id
              ELSE (CHOOSE cu \in customer_users : cu.email = name).customer_id
    IN  issued @@ (next_token :> [kind |-> kind, name |-> name, at |-> now, id |-> id])

\* ---------------------------------------------------------------- handlers
\* Faulty variant, for sensitivity: a successful login forgets the identifier's failures.
handle_login_resetting(raw_username, password) ==
    LET username == strip(raw_username)
        identifier == "admin_" \o username
        pruned == PrunedAttempts(identifier)
        match == {u \in users : u.username = username
                                /\ verify_password(password, u.password_hash)}
    IN  /\ UNCHANGED <<now, flaskVars, fastVars, in_flight, dbVars, customer_sessions, crudVars>>
        /\ IF username = "" \/ password = ""
           THEN /\ response' = [status |-> 400, token |-> NoToken, lookup |-> FALSE,
                                valid |-> match # {}]
                /\ UNCHANGED <<login_attempts, sessions, next_token, issued>>
           ELSE IF ~check_rate_limit(identifier)
           THEN /\ response' = [status |-> 429, token |-> NoToken, lookup |-> FALSE,
                                valid |-> match # {}]
                /\ login_attempts' = pruned
                /\ UNCHANGED <<sessions, next_token, issued>>
           ELSE IF match # {}
           THEN /\ next_token <= MaxTokens
                /\ sessions' = sessions \cup {create_session((CHOOSE u \in match : TRUE).id)}
                /\ next_token' = next_token + 1
                /\ issued' = issued @@ (next_token :>
                                [kind |-> "admin", name |-> username, at |-> now,
                                 id |-> (CHOOSE u \in match : TRUE).id])
                /\ login_attempts' = [k \in DOMAIN pruned \ {identifier} |-> pruned[k]]
                /\ response' = [status |-> 200, token |-> next_token, lookup |-> TRUE,
                                valid |-> TRUE]
           ELSE /\ Recorded(pruned, DOMAIN pruned) < MaxRecorded
                /\ login_attempts' = record_login_attempt(pruned, identifier)
                /\ response' = [status |-> 401, token |-> NoToken, lookup |-> TRUE,
                                valid |-> FALSE]
                /\ UNCHANGED <<sessions, next_token, issued>>

handle_login(raw_username, password) ==
    LET username == strip(raw_username)
        identifier == AdminIdentifier(username)
        pruned == PrunedAttempts(identifier)
        match == AdminMatch(username, password)
    IN  /\ UNCHANGED <<now, flaskVars, fastVars, in_flight, dbVars, customer_sessions, crudVars>>
        /\ IF username = "" \/ password = ""
           THEN /\ response' = Reply(400, NoToken, FALSE, match # {})
                /\ UNCHANGED <<login_attempts, sessions, next_token, issued>>
           ELSE IF ~check_rate_limit(identifier)
           THEN /\ response' = Reply(429, NoToken, FALSE, match # {})
                /\ login_attempts' = pruned
                /\ UNCHANGED <<sessions, next_token, issued>>
           ELSE IF match # {}
           THEN /\ next_token <= MaxTokens
                /\ sessions' = sessions \cup {create_session((CHOOSE u \in match : TRUE).id)}
                /\ next_token' = next_token + 1
                /\ issued' = Issue("admin", username)
                /\ login_attempts' = pruned
                /\ response' = Reply(200, next_token, TRUE, TRUE)
           ELSE /\ Recorded(pruned, DOMAIN pruned) < MaxRecorded
                /\ login_attempts' = record_login_attempt(pruned, identifier)
                /\ response' = Reply(401, NoToken, TRUE, FALSE)
                /\ UNCHANGED <<sessions, next_token, issued>>

handle_customer_login(raw_email, password) ==
    LET email == strip_lower(raw_email)
        identifier == CustomerIdentifier(email)
        pruned == PrunedAttempts(identifier)
        match == CustomerMatch(email, password)
    IN  /\ UNCHANGED <<now, flaskVars, fastVars, in_flight, dbVars, sessions, crudVars>>
        /\ IF email = "" \/ password = ""
           THEN /\ response' = Reply(400, NoToken, FALSE, match # {})
                /\ UNCHANGED <<login_attempts, customer_sessions, next_token, issued>>
           ELSE IF ~check_rate_limit(identifier)
           THEN /\ response' = Reply(429, NoToken, FALSE, match # {})
                /\ login_attempts' = pruned
                /\ UNCHANGED <<customer_sessions, next_token, issued>>
           ELSE IF match # {}
           THEN LET customer == CHOOSE cu \in match : TRUE
                IN  IF customer.status \in {"suspended", "pending_verification"}
                    THEN /\ response' = Reply(403, NoToken, TRUE, TRUE)
                         /\ login_attempts' = pruned
                         /\ UNCHANGED <<customer_sessions, next_token, issued>>
                    ELSE /\ next_token <= MaxTokens
                         /\ customer_sessions' = customer_sessions \cup
                                {create_customer_session(customer.customer_id)}
                         /\ next_token' = next_token + 1
                         /\ issued' = Issue("customer", email)
                         /\ login_attempts' = pruned
                         /\ response' = Reply(200, next_token, TRUE, TRUE)
           ELSE /\ Recorded(pruned, DOMAIN pruned) < MaxRecorded
                /\ login_attempts' = record_login_attempt(pruned, identifier)
                /\ response' = Reply(401, NoToken, TRUE, FALSE)
                /\ UNCHANGED <<customer_sessions, next_token, issued>>

\* cleanup_expired_sessions, as handle_health_check runs it.
handle_health_check ==
    /\ sessions' = sessions \ ExpiredRows(sessions)
    /\ customer_sessions' = customer_sessions \ ExpiredRows(customer_sessions)
    /\ response' = Reply(200, NoToken, FALSE, FALSE)
    /\ UNCHANGED <<now, flaskVars, fastVars, in_flight, dbVars, login_attempts, next_token, issued, crudVars>>

\* The wall clock moves on, within the rate limiter's window.
Tick ==
    /\ now + ShortTick <= MaxShortNow
    /\ now' = now + ShortTick
    /\ UNCHANGED <<serverVars, flaskVars, fastVars, in_flight>>

\* The wall clock moves on by half a session lifetime.
AdvanceClock ==
    /\ now + LongTick <= MaxNow
    /\ now' = now + LongTick
    /\ UNCHANGED <<serverVars, flaskVars, fastVars, in_flight>>

\* ---------------------------------------------------------------- CRUD handlers
\* The request bodies and path ids the requests below are drawn from.  complete = FALSE
\* is a body that lacks a key the handler reads with data[...].
CustomerIds == {1}
VehicleIds == {1}
ServiceIds == {1}
NewEmail == "new@email.com"
NewPlate == "NEW-001"
CustomerData == [complete : BOOLEAN, email : {SharedName, NewEmail}]
VehicleData == [complete : BOOLEAN, customer_id : {2, 9}, license_plate : {"DEF-456", NewPlate}]
ServiceData == [complete : BOOLEAN, vehicle_id : {3, 9}]
\* The Authorization header of a request: absent, unknown to the server, or issued.
BadToken == 99
RequestTokens == {NoToken, BadToken} \cup DOMAIN issued

\* ON DELETE CASCADE, which SQLite applies only when foreign keys are enforced.
CascadeVehicles(gone) ==
    IF foreign_keys THEN {v \in vehicles : v.customer_id \notin gone} ELSE vehicles

CascadeServices(kept) ==
    IF foreign_keys THEN {s \in services : \E v \in kept : v.id = s.vehicle_id} ELSE services

handle_get_customers(token) ==
    /\ request' = Did("handle_get_customers", token, TRUE, 200, {c.id : c \in customers})
    /\ UNCHANGED <<now, flaskVars, fastVars, in_flight, authVars, dbVars, response, vehicles, services, next_id, foreign_keys, shopVars>>

handle_get_vehicles(token) ==
    /\ request' = Did("handle_get_vehicles", token, TRUE, 200,
                      {v.id : v \in {w \in vehicles : \E c \in customers : c.id = w.customer_id}})
    /\ UNCHANGED <<now, flaskVars, fastVars, in_flight, authVars, dbVars, response, vehicles, services, next_id, foreign_keys, shopVars>>

handle_get_services(token) ==
    /\ request' = Did("handle_get_services", token, TRUE, 200,
                      {s.id : s \in {r \in services : \E v \in vehicles :
                           /\ v.id = r.vehicle_id
                           /\ \E c \in customers : c.id = v.customer_id}})
    /\ UNCHANGED <<now, flaskVars, fastVars, in_flight, authVars, dbVars, response, vehicles, services, next_id, foreign_keys, shopVars>>

handle_add_customer(token, data) ==
    /\ UNCHANGED <<now, flaskVars, fastVars, in_flight, authVars, users, customer_users, response, vehicles, services,
                   foreign_keys, shopVars>>
    /\ IF ~data.complete
       THEN /\ request' = Did("handle_add_customer", token, FALSE, 400, {})
            /\ UNCHANGED <<customers, next_id>>
       ELSE IF \E c \in customers : c.email = data.email
       THEN /\ request' = Did("handle_add_customer", token, TRUE, 400, {})
            /\ UNCHANGED <<customers, next_id>>
       ELSE /\ next_id.customers <= MaxCustomerId
            /\ customers' = customers \cup {[id |-> next_id.customers, email |-> data.email]}
            /\ next_id' = [next_id EXCEPT !.customers = @ + 1]
            /\ request' = Did("handle_add_customer", token, TRUE, 200, {next_id.customers})

handle_add_vehicle(token, data) ==
    /\ UNCHANGED <<now, flaskVars, fastVars, in_flight, authVars, dbVars, response, services, foreign_keys, shopVars>>
    /\ IF ~data.complete
       THEN /\ request' = Did("handle_add_vehicle", token, FALSE, 400, {})
            /\ UNCHANGED <<vehicles, next_id>>
       ELSE IF \/ \E v \in vehicles : v.license_plate = data.license_plate
               \/ foreign_keys /\ ~\E c \in customers : c.id = data.customer_id
       THEN /\ request' = Did("handle_add_vehicle", token, TRUE, 400, {})
            /\ UNCHANGED <<vehicles, next_id>>
       ELSE /\ next_id.vehicles <= MaxVehicleId
            /\ vehicles' = vehicles \cup {[id |-> next_id.vehicles,
                                           customer_id |-> data.customer_id,
                                           license_plate |-> data.license_plate]}
            /\ next_id' = [next_id EXCEPT !.vehicles = @ + 1]
            /\ request' = Did("handle_add_vehicle", token, TRUE, 200, {next_id.vehicles})

handle_add_service(token, data) ==
    /\ UNCHANGED <<now, flaskVars, fastVars, in_flight, authVars, dbVars, response, vehicles, foreign_keys, shopVars>>
    /\ IF ~data.complete
       THEN /\ request' = Did("handle_add_service", token, FALSE, 400, {})
            /\ UNCHANGED <<services, next_id>>
       ELSE IF foreign_keys /\ ~\E v \in vehicles : v.id = data.vehicle_id
       THEN /\ request' = Did("handle_add_service", token, TRUE, 400, {})
            /\ UNCHANGED <<services, next_id>>
       ELSE /\ next_id.services <= MaxServiceId
            /\ services' = services \cup {[id |-> next_id.services,
                                           vehicle_id |-> data.vehicle_id]}
            /\ next_id' = [next_id EXCEPT !.services = @ + 1]
            /\ request' = Did("handle_add_service", token, TRUE, 200, {next_id.services})

handle_delete_customer(token, customer_id) ==
    /\ customers' = {c \in customers : c.id # customer_id}
    /\ vehicles' = CascadeVehicles({customer_id})
    /\ services' = CascadeServices(CascadeVehicles({customer_id}))
    /\ customer_users' = IF foreign_keys
                         THEN {cu \in customer_users : cu.customer_id # customer_id}
                         ELSE customer_users
    /\ customer_sessions' = IF foreign_keys
                            THEN {cs \in customer_sessions : cs.customer_id # customer_id}
                            ELSE customer_sessions
    /\ garage_bookings' = IF foreign_keys
                          THEN {b \in garage_bookings : b.customer_id # customer_id}
                          ELSE garage_bookings
    /\ request' = Did("handle_delete_customer", token, TRUE, 200, {})
    /\ UNCHANGED <<now, flaskVars, fastVars, in_flight, login_attempts, sessions, next_token, issued, users, response,
                   next_id, foreign_keys, technicians>>

handle_delete_vehicle(token, vehicle_id) ==
    /\ vehicles' = {v \in vehicles : v.id # vehicle_id}
    /\ services' = CascadeServices({v \in vehicles : v.id # vehicle_id})
    /\ request' = Did("handle_delete_vehicle", token, TRUE, 200, {})
    /\ UNCHANGED <<now, flaskVars, fastVars, in_flight, authVars, dbVars, response, next_id, foreign_keys, shopVars>>

handle_delete_service(token, service_id) ==
    /\ services' = {s \in services : s.id # service_id}
    /\ request' = Did("handle_delete_service", token, TRUE, 200, {})
    /\ UNCHANGED <<now, flaskVars, fastVars, in_flight, authVars, dbVars, response, vehicles, next_id, foreign_keys, shopVars>>

handle_update_customer(token, customer_id, data) ==
    /\ UNCHANGED <<now, flaskVars, fastVars, in_flight, authVars, users, customer_users, response, vehicles, services,
                   next_id, foreign_keys, shopVars>>
    /\ IF ~data.complete
       THEN /\ request' = Did("handle_update_customer", token, FALSE, 400, {})
            /\ UNCHANGED customers
       ELSE IF /\ \E c \in customers : c.id = customer_id
               /\ \E c \in customers : c.id # customer_id /\ c.email = data.email
       THEN /\ request' = Did("handle_update_customer", token, TRUE, 400, {})
            /\ UNCHANGED customers
       ELSE /\ customers' = {IF c.id = customer_id THEN [c EXCEPT !.email = data.email] ELSE c :
                                c \in customers}
            /\ request' = Did("handle_update_customer", token, TRUE, 200, {})

handle_update_vehicle(token, vehicle_id, data) ==
    /\ UNCHANGED <<now, flaskVars, fastVars, in_flight, authVars, dbVars, response, services, next_id, foreign_keys, shopVars>>
    /\ IF ~data.complete
       THEN /\ request' = Did("handle_update_vehicle", token, FALSE, 400, {})
            /\ UNCHANGED vehicles
       ELSE IF /\ \E v \in vehicles : v.id = vehicle_id
               /\ \/ \E v \in vehicles : v.id # vehicle_id /\ v.license_plate = data.license_plate
                  \/ foreign_keys /\ ~\E c \in customers : c.id = data.customer_id
       THEN /\ request' = Did("handle_update_vehicle", token, TRUE, 400, {})
            /\ UNCHANGED vehicles
       ELSE /\ vehicles' = {IF v.id = vehicle_id
                            THEN [v EXCEPT !.customer_id = data.customer_id,
                                           !.license_plate = data.license_plate]
                            ELSE v : v \in vehicles}
            /\ request' = Did("handle_update_vehicle", token, TRUE, 200, {})

handle_update_service(token, service_id, data) ==
    /\ UNCHANGED <<now, flaskVars, fastVars, in_flight, authVars, dbVars, response, vehicles, next_id, foreign_keys, shopVars>>
    /\ IF ~data.complete
       THEN /\ request' = Did("handle_update_service", token, FALSE, 400, {})
            /\ UNCHANGED services
       ELSE IF /\ \E s \in services : s.id = service_id
               /\ foreign_keys /\ ~\E v \in vehicles : v.id = data.vehicle_id
       THEN /\ request' = Did("handle_update_service", token, TRUE, 400, {})
            /\ UNCHANGED services
       ELSE /\ services' = {IF s.id = service_id THEN [s EXCEPT !.vehicle_id = data.vehicle_id]
                            ELSE s : s \in services}
            /\ request' = Did("handle_update_service", token, TRUE, 200, {})

\* ---------------------------------------------------------------- technicians, bookings
\* The bodies and path ids of the technician and booking requests.  In a booking,
\* assigned_technician_id 0 is a body without the key (or with a falsy value).
BookingData == [complete : BOOLEAN, customer_id : {1}, assigned_technician_id : {0, 2}]
BookingIds == {4}
TechnicianIds == {1, 2, 3, 4}
TechnicianData == [complete : {TRUE}, status : {"available", "busy"}]

\* Faulty variant, for sensitivity: the SELECT has no WHERE status = 'available'.
assign_technician_rows_any_status ==
    {t \in technicians : \A o \in technicians : t.current_workload <= o.current_workload}

\* The rows that ORDER BY current_workload ASC, RANDOM() LIMIT 1 can return.
assign_technician_rows ==
    {t \in technicians :
        /\ t.status = "available"
        /\ \A o \in technicians :
              o.status = "available" => t.current_workload <= o.current_workload}

\* assign_technician's UPDATE, committed on its own connection.
assign_technician(technician) ==
    {IF t.id = technician.id THEN [t EXCEPT !.current_workload = @ + 1] ELSE t :
        t \in technicians}

handle_add_booking(token, data) ==
    LET auto == data.assigned_technician_id = 0
        rows == IF auto THEN assign_technician_rows ELSE {}
    IN  \E technician \in IF rows = {} THEN {None} ELSE rows :
            LET assigned_technician_id == IF auto THEN technician.id
                                          ELSE data.assigned_technician_id
                fails == \/ ~data.complete
                         \/ /\ foreign_keys
                            /\ \/ \A c \in customers : c.id # data.customer_id
                               \/ /\ assigned_technician_id # 0
                                  /\ \A t \in technicians : t.id # assigned_technician_id
            IN  /\ UNCHANGED <<now, flaskVars, fastVars, in_flight, authVars, dbVars, response, vehicles, services,
                               foreign_keys>>
                /\ technician # None => technician.current_workload < MaxWorkload
                /\ technicians' = IF technician # None THEN assign_technician(technician)
                                  ELSE technicians
                /\ IF fails
                   THEN /\ request' = Did("handle_add_booking", token, technician # None,
                                          400, {})
                        /\ UNCHANGED <<garage_bookings, next_id>>
                   ELSE /\ next_id.bookings <= MaxBookingId
                        /\ garage_bookings' = garage_bookings \cup
                               {[id |-> next_id.bookings, customer_id |-> data.customer_id,
                                 assigned_technician_id |-> assigned_technician_id]}
                        /\ next_id' = [next_id EXCEPT !.bookings = @ + 1]
                        /\ request' = Did("handle_add_booking", token, TRUE, 200,
                                          {assigned_technician_id})

handle_delete_booking(token, booking_id) ==
    LET result == {b \in garage_bookings : b.id = booking_id}
        assigned == {b.assigned_technician_id : b \in result} \ {0}
    IN  /\ technicians' =
              {IF t.id \in assigned
               THEN [t EXCEPT !.current_workload = IF @ > 0 THEN @ - 1 ELSE 0]
               ELSE t : t \in technicians}
        /\ garage_bookings' = garage_bookings \ result
        /\ request' = Did("handle_delete_booking", token, TRUE, 200, {})
        /\ UNCHANGED <<now, flaskVars, fastVars, in_flight, authVars, dbVars, response, vehicles, services, next_id,
                       foreign_keys>>

\* handle_update_booking: one UPDATE of the bookings row, assigned_technician_id
\* included (NULL when the body has none); a body without customer_id, booking_date or
\* booking_time raises KeyError, which is answered 400.
handle_update_booking(token, booking_id, data) ==
    LET fails == \/ ~data.complete
                 \/ /\ foreign_keys
                    /\ \E b \in garage_bookings : b.id = booking_id
                    /\ \/ \A c \in customers : c.id # data.customer_id
                       \/ /\ data.assigned_technician_id # 0
                          /\ \A t \in technicians : t.id # data.assigned_technician_id
    IN  /\ UNCHANGED <<now, flaskVars, fastVars, in_flight, authVars, dbVars, response, vehicles, services, next_id,
                       foreign_keys, technicians>>
        /\ IF fails
           THEN /\ request' = Did("handle_update_booking", token, FALSE, 400, {})
                /\ UNCHANGED garage_bookings
           ELSE /\ garage_bookings' =
                      {IF b.id = booking_id
                       THEN [b EXCEPT !.customer_id = data.customer_id,
                                      !.assigned_technician_id = data.assigned_technician_id]
                       ELSE b : b \in garage_bookings}
                /\ request' = Did("handle_update_booking", token, TRUE, 200, {})

\* handle_delete_technician: ON DELETE SET NULL applies when foreign keys are enforced.
handle_delete_technician(token, technician_id) ==
    /\ technicians' = {t \in technicians : t.id # technician_id}
    /\ garage_bookings' =
          IF foreign_keys
          THEN {IF b.assigned_technician_id = technician_id
                THEN [b EXCEPT !.assigned_technician_id = 0] ELSE b : b \in garage_bookings}
          ELSE garage_bookings
    /\ request' = Did("handle_delete_technician", token, TRUE, 200, {})
    /\ UNCHANGED <<now, flaskVars, fastVars, in_flight, authVars, dbVars, response, vehicles, services, next_id,
                   foreign_keys>>

handle_update_technician(token, technician_id, data) ==
    /\ UNCHANGED <<now, flaskVars, fastVars, in_flight, authVars, dbVars, response, vehicles, services, next_id,
                   foreign_keys, garage_bookings>>
    /\ IF ~data.complete
       THEN /\ request' = Did("handle_update_technician", token, FALSE, 400, {})
            /\ UNCHANGED technicians
       ELSE /\ technicians' = {IF t.id = technician_id THEN [t EXCEPT !.status = data.status]
                               ELSE t : t \in technicians}
            /\ request' = Did("handle_update_technician", token, TRUE, 200, {})

\* ================================================================ app1.py (Flask, JWT)
\* ---------------------------------------------------------------- inputs
\* The shape validate_password reads off a password.
PasswordShape ==
    [p \in {"Admin@123", "Staff@123", "New@12345", "weak", "customer123", "Customer123"} |->
        IF p = "weak"
        THEN [len |-> 4, upper |-> FALSE, lower |-> TRUE, digit |-> FALSE]
        ELSE IF p = "customer123"
        THEN [len |-> 11, upper |-> FALSE, lower |-> TRUE, digit |-> TRUE]
        ELSE [len |-> IF p = "Customer123" THEN 11 ELSE 9,
              upper |-> TRUE, lower |-> TRUE, digit |-> TRUE]]

NoJwt == 0
ForgedJwt == 98
\* Login requests: (username, password) as sent.
LoginRequests ==
    {<<" Admin ", "Admin@123">>, <<"admin", "New@12345">>, <<"staff", "Staff@123">>,
     <<"admin", "Staff@123">>, <<"staff", "">>, <<"nobody", "Staff@123">>}
CurrentPasswords == {"", "Admin@123", "New@12345"}
NewPasswords == {"", "New@12345", "weak", "Admin@123"}
PresentedJwts == {NoJwt, ForgedJwt} \cup DOMAIN jwts
RowIds == {1, 2}
\* forgot-password requests: the email as sent.
MixedCaseStaffEmail == "Staff@AutoCare.com"
EmailInputs == {"", "not-an-email", MixedCaseStaffEmail, "admin@autocare.com",
                "nobody@autocare.com"}
\* The lockout's requests: logins of the staff user, and reset passwords.
LockLogins ==
    {<<"staff", "Staff@123">>, <<"staff", "Admin@123">>, <<"staff", "New@12345">>,
     <<"staff", "">>}
LockEmails == {MixedCaseStaffEmail, "nobody@autocare.com"}
ResetPasswords == {"weak", "New@12345"}
UnknownResetToken == 97
PresentedResetTokens == {UnknownResetToken} \cup 1..(next_reset_token - 1)
ClientData == [valid : BOOLEAN, email : {"", "client@example.com"}]

\* ---------------------------------------------------------------- helpers
generate_password_hash(password) == <<"bcrypt", password>>

check_password(user, password) == user.password_hash = generate_password_hash(password)

\* validate_password succeeds (it raises ValidationError otherwise).
validate_password(password) ==
    /\ password # ""
    /\ PasswordShape[password].len >= 8
    /\ PasswordShape[password].upper
    /\ PasswordShape[password].lower
    /\ PasswordShape[password].digit

\* validate_email: the pattern test, and the email.lower().strip() it returns.
email_matches_pattern(email) == email \notin {"", "not-an-email"}

validate_email(email) == IF email = MixedCaseStaffEmail THEN "staff@autocare.com" ELSE email

\* User.generate_reset_token, on the row.
generate_reset_token(user, token) ==
    [user EXCEPT !.reset_token = token, !.reset_token_expiry = now + RESET_TOKEN_SECONDS]

\* Faulty variant, for sensitivity: the expiry is not looked at.
verify_reset_token_any_age(user, token) ==
    user.reset_token = token /\ user.reset_token_expiry # 0

verify_reset_token(user, token) ==
    /\ user.reset_token = token
    /\ user.reset_token_expiry # 0
    /\ user.reset_token_expiry > now

\* Faulty variant, for sensitivity: the lockout ends a tick early.
is_account_locked_short(user) ==
    user.account_locked_until # 0 /\ user.account_locked_until > now + LockTick

is_account_locked(user) ==
    user.account_locked_until # 0 /\ user.account_locked_until > now

create_access_token(identity) == [sub |-> identity, exp |-> now + JWT_ACCESS_TOKEN_EXPIRES]

\* @jwt_required(): 0 lets the request through to the view, and otherwise the status
\* the extension answers with.
jwt_required(token) ==
    IF token = NoJwt THEN 401
    ELSE IF token \notin DOMAIN jwts THEN 422
    ELSE IF ~(jwts[token].exp > now) THEN 401
    ELSE 0

get_jwt_identity(token) == jwts[token].sub

\* The id SQLite gives the next row of a table whose key is a plain INTEGER PRIMARY KEY.
NextRowId(table) ==
    IF table = {} THEN 1 ELSE 1 + CHOOSE m \in {r.id : r \in table} :
                                     \A r \in table : r.id <= m

\* jsonify(...), status: the status, the access_token field, the message (a text and
\* the number formatted into it, 0 when none) and the reset_link field (0 when absent).
jsonify(status, access_token, message, reset_link) ==
    [status |-> status, access_token |-> access_token, message |-> message,
     reset_link |-> reset_link]

\* The answer of a route whose message no property reads.
Answer(status, access_token) == jsonify(status, access_token, <<"", 0>>, 0)

\* What login does to the users table and answers, before a token is signed:
\* grant says that the password verified and create_access_token is called.
login_result(table, raw_username, password) ==
    LET username == strip_lower(raw_username)
        found == {id \in DOMAIN table : table[id].username = username}
        id == CHOOSE i \in found : TRUE
        user == table[id]
        failed == user.failed_login_attempts + 1
        keep(status, message) ==
            [status |-> status, message |-> message, grant |-> FALSE, table |-> table]
    IN  IF raw_username = "" \/ password = ""
        THEN keep(400, <<"Username and password are required", 0>>)
        ELSE IF found = {}
        THEN keep(401, <<"Invalid username or password", 0>>)
        ELSE IF is_account_locked(user)
        THEN keep(403, <<"Account is locked due to too many failed login attempts. Please try again in N minutes.",
                         (user.account_locked_until - now) \div 60>>)
        ELSE IF ~user.is_active
        THEN keep(403, <<"Account is deactivated. Please contact administrator.", 0>>)
        ELSE IF check_password(user, password)
        THEN [status |-> 200, message |-> <<"Login successful", 0>>, grant |-> TRUE,
              table |-> [table EXCEPT ![id].failed_login_attempts = 0,
                                      ![id].account_locked_until = 0]]
        ELSE IF failed >= MAX_FAILED_LOGINS
        THEN [status |-> 403,
              message |-> <<"Account locked due to too many failed login attempts. Please try again in 30 minutes.", 0>>,
              grant |-> FALSE,
              table |-> [table EXCEPT ![id].failed_login_attempts = failed,
                                      ![id].account_locked_until = now + LOCK_SECONDS]]
        ELSE [status |-> 401,
              message |-> <<"Invalid username or password. N attempts remaining.",
                            MAX_FAILED_LOGINS - failed>>,
              grant |-> FALSE,
              table |-> [table EXCEPT ![id].failed_login_attempts = failed]]

\* ---------------------------------------------------------------- auth routes
login(raw_username, password) ==
    LET r == login_result(app_users, raw_username, password)
        token == Cardinality(DOMAIN jwts) + 1
        identity == CHOOSE i \in DOMAIN app_users :
                        app_users[i].username = strip_lower(raw_username)
    IN  /\ UNCHANGED <<now, serverVars, fastVars, in_flight, next_reset_token, reset_history, appData, logged_out, superseded>>
        /\ app_users' = r.table
        /\ locked_once' = locked_once \cup
               {i \in DOMAIN app_users :
                   r.table[i].account_locked_until \notin {0, app_users[i].account_locked_until}}
        /\ wrong_attempts' =
               [i \in DOMAIN app_users |->
                   IF r.grant /\ i = identity THEN 0
                   ELSE IF r.table[i].failed_login_attempts > app_users[i].failed_login_attempts
                   THEN wrong_attempts[i] + 1
                   ELSE wrong_attempts[i]]
        /\ IF r.grant
           THEN /\ token <= MaxJwts
                /\ jwts' = [t \in DOMAIN jwts \cup {token} |->
                               IF t = token THEN create_access_token(identity) ELSE jwts[t]]
                /\ app_response' = jsonify(200, token, r.message, 0)
           ELSE /\ UNCHANGED jwts
                /\ app_response' = jsonify(r.status, NoJwt, r.message, 0)

\* ---------------------------------------------------------------- login, served by threads
\* app.run serves each request in a thread of its own, with a session of its own; the
\* SELECT of login holds no lock once it has returned, and the UPDATE that commit
\* flushes sets the columns the view assigned a new value to, to the values computed
\* from the row the session loaded.
Idle == [pc |-> "idle", status |-> 0, id |-> 0, grant |-> FALSE, loaded |-> <<>>, dirty |-> <<>>]

\* login, lines 366-401: the request is validated, the user is loaded, the lock and
\* is_active are tested and the password is checked; requests are numbered as they
\* arrive.
login_query(r, raw_username, password) ==
    LET res == login_result(app_users, raw_username, password)
        found == {i \in DOMAIN app_users : app_users[i].username = strip_lower(raw_username)}
        id == CHOOSE i \in found : TRUE
        writes == res.grant \/ res.table # app_users
    IN  /\ in_flight[r].pc = "idle"
        /\ \A q \in 1..(r - 1) : in_flight[q].pc # "idle"
        /\ in_flight' = [in_flight EXCEPT ![r] =
               IF writes
               THEN [pc |-> "commit", status |-> res.status, id |-> id, grant |-> res.grant,
                     loaded |-> app_users[id], dirty |-> res.table[id]]
               ELSE [Idle EXCEPT !.pc = "done", !.status = res.status]]
        /\ wrong_attempts' = IF writes /\ ~res.grant
                             THEN [wrong_attempts EXCEPT ![id] = @ + 1] ELSE wrong_attempts
        /\ UNCHANGED <<now, serverVars, fastVars, app_users, jwts, appData, app_response, logged_out,
                       superseded, next_reset_token, locked_once, reset_history>>

\* login, lines 402-437: db.session.commit() and the answer.
login_commit(r) ==
    LET req == in_flight[r]
        id == req.id
        token == Cardinality(DOMAIN jwts) + 1
        written == [app_users[id] EXCEPT
                       !.failed_login_attempts =
                           IF req.dirty.failed_login_attempts # req.loaded.failed_login_attempts
                           THEN req.dirty.failed_login_attempts ELSE @,
                       !.account_locked_until =
                           IF req.dirty.account_locked_until # req.loaded.account_locked_until
                           THEN req.dirty.account_locked_until ELSE @]
    IN  /\ req.pc = "commit"
        /\ app_users' = [app_users EXCEPT ![id] = written]
        /\ in_flight' = [in_flight EXCEPT ![r].pc = "done"]
        /\ locked_once' = locked_once \cup
               (IF written.account_locked_until
                      \notin {0, app_users[id].account_locked_until} THEN {id} ELSE {})
        /\ wrong_attempts' = IF req.grant THEN [wrong_attempts EXCEPT ![id] = 0]
                             ELSE wrong_attempts
        /\ IF req.grant
           THEN /\ token <= MaxJwts
                /\ jwts' = [t \in DOMAIN jwts \cup {token} |->
                               IF t = token THEN create_access_token(id) ELSE jwts[t]]
                /\ app_response' = jsonify(200, token, <<"Login successful", 0>>, 0)
           ELSE /\ UNCHANGED jwts
                /\ app_response' = Answer(req.status, NoJwt)
        /\ UNCHANGED <<now, serverVars, fastVars, appData, logged_out, superseded, next_reset_token,
                       reset_history>>

\* What forgot_password does to the users table and answers, when token is the value
\* secrets.token_urlsafe hands out.
forgot_password_result(table, raw_email, token) ==
    LET email == validate_email(raw_email)
        found == {id \in DOMAIN table : table[id].email = email}
        id == CHOOSE i \in found : TRUE
        generic == <<"If an account with that email exists, a password reset link has been sent.", 0>>
    IN  IF raw_email = ""
        THEN [status |-> 400, message |-> <<"Email is required", 0>>, reset_link |-> 0,
              table |-> table]
        ELSE IF ~email_matches_pattern(raw_email)
        THEN [status |-> 400, message |-> <<"Invalid email format", 0>>, reset_link |-> 0,
              table |-> table]
        ELSE IF found = {}
        THEN [status |-> 200, message |-> generic, reset_link |-> 0, table |-> table]
        ELSE [status |-> 200, message |-> generic, reset_link |-> token,
              table |-> [table EXCEPT ![id] = generate_reset_token(table[id], token)]]

forgot_password(raw_email) ==
    LET r == forgot_password_result(app_users, raw_email, next_reset_token)
    IN  /\ UNCHANGED <<now, serverVars, fastVars, in_flight, locked_once, wrong_attempts, jwts, appData, logged_out, superseded>>
        /\ r.reset_link # 0 => next_reset_token <= MaxResetTokens
        /\ app_users' = r.table
        /\ next_reset_token' = IF r.reset_link # 0 THEN next_reset_token + 1
                               ELSE next_reset_token
        /\ reset_history' = IF r.reset_link = 0 THEN reset_history
                            ELSE reset_history @@
                                 (r.reset_link :> [user |-> CHOOSE i \in DOMAIN app_users :
                                                               r.table[i].reset_token = r.reset_link,
                                                   at |-> now, used |-> 0])
        /\ app_response' = jsonify(r.status, NoJwt, r.message, r.reset_link)

\* Faulty variant, for sensitivity: a reset lifts the lockout and keeps the count.
reset_password_keeping_count(token, new_password) ==
    LET found == {id \in DOMAIN app_users : app_users[id].reset_token = token}
        id == CHOOSE i \in found : TRUE
        changes == /\ token # 0 /\ new_password # "" /\ validate_password(new_password)
                   /\ found # {} /\ verify_reset_token(app_users[id], token)
    IN  /\ UNCHANGED <<now, serverVars, fastVars, in_flight, next_reset_token, locked_once, jwts, appData, logged_out,
                       superseded>>
        /\ reset_history' = IF changes /\ token \in DOMAIN reset_history
                            THEN [reset_history EXCEPT ![token].used = @ + 1]
                            ELSE reset_history
        /\ wrong_attempts' = IF changes THEN [wrong_attempts EXCEPT ![id] = 0]
                             ELSE wrong_attempts
        /\ IF token = 0 \/ new_password = "" \/ ~validate_password(new_password)
           THEN /\ app_response' = Answer(400, NoJwt)
                /\ UNCHANGED app_users
           ELSE IF found = {}
           THEN /\ app_response' = jsonify(400, NoJwt, <<"Invalid or expired reset token", 0>>, 0)
                /\ UNCHANGED app_users
           ELSE IF ~verify_reset_token(app_users[id], token)
           THEN /\ app_response' = jsonify(400, NoJwt,
                        <<"Reset token has expired. Please request a new one.", 0>>, 0)
                /\ UNCHANGED app_users
           ELSE /\ app_users' = [app_users EXCEPT
                        ![id].password_hash = generate_password_hash(new_password),
                        ![id].reset_token = 0,
                        ![id].reset_token_expiry = 0,
                        ![id].account_locked_until = 0]
                /\ app_response' = jsonify(200, NoJwt,
                        <<"Password has been reset successfully. You can now login with your new password.", 0>>, 0)

reset_password(token, new_password) ==
    LET found == {id \in DOMAIN app_users : app_users[id].reset_token = token}
        id == CHOOSE i \in found : TRUE
        changes == /\ token # 0 /\ new_password # "" /\ validate_password(new_password)
                   /\ found # {} /\ verify_reset_token(app_users[id], token)
    IN  /\ UNCHANGED <<now, serverVars, fastVars, in_flight, next_reset_token, locked_once, jwts, appData, logged_out,
                       superseded>>
        /\ reset_history' = IF changes /\ token \in DOMAIN reset_history
                            THEN [reset_history EXCEPT ![token].used = @ + 1]
                            ELSE reset_history
        /\ wrong_attempts' = IF changes THEN [wrong_attempts EXCEPT ![id] = 0]
                             ELSE wrong_attempts
        /\ IF token = 0 \/ new_password = "" \/ ~validate_password(new_password)
           THEN /\ app_response' = Answer(400, NoJwt)
                /\ UNCHANGED app_users
           ELSE IF found = {}
           THEN /\ app_response' = jsonify(400, NoJwt, <<"Invalid or expired reset token", 0>>, 0)
                /\ UNCHANGED app_users
           ELSE IF ~verify_reset_token(app_users[id], token)
           THEN /\ app_response' = jsonify(400, NoJwt,
                        <<"Reset token has expired. Please request a new one.", 0>>, 0)
                /\ UNCHANGED app_users
           ELSE /\ app_users' = [app_users EXCEPT
                        ![id].password_hash = generate_password_hash(new_password),
                        ![id].reset_token = 0,
                        ![id].reset_token_expiry = 0,
                        ![id].failed_login_attempts = 0,
                        ![id].account_locked_until = 0]
                /\ app_response' = jsonify(200, NoJwt,
                        <<"Password has been reset successfully. You can now login with your new password.", 0>>, 0)

verify_token(token) ==
    /\ UNCHANGED <<now, serverVars, fastVars, in_flight, next_reset_token, locked_once, reset_history, wrong_attempts, app_users, jwts, appData, logged_out, superseded>>
    /\ IF jwt_required(token) # 0
       THEN app_response' = Answer(jwt_required(token), NoJwt)
       ELSE IF \/ get_jwt_identity(token) \notin DOMAIN app_users
               \/ ~app_users[get_jwt_identity(token)].is_active
       THEN app_response' = Answer(401, NoJwt)
       ELSE app_response' = Answer(200, NoJwt)

logout(token) ==
    /\ UNCHANGED <<now, serverVars, fastVars, in_flight, next_reset_token, locked_once, reset_history, wrong_attempts, app_users, jwts, appData, superseded>>
    /\ IF jwt_required(token) # 0
       THEN /\ app_response' = Answer(jwt_required(token), NoJwt)
            /\ UNCHANGED logged_out
       ELSE /\ app_response' = Answer(200, NoJwt)
            /\ logged_out' = logged_out \cup {token}

change_password(token, current_password, new_password) ==
    /\ UNCHANGED <<now, serverVars, fastVars, in_flight, next_reset_token, locked_once, reset_history, wrong_attempts, jwts, appData, logged_out>>
    /\ IF jwt_required(token) # 0
       THEN /\ app_response' = Answer(jwt_required(token), NoJwt)
            /\ UNCHANGED <<app_users, superseded>>
       ELSE LET user_id == get_jwt_identity(token)
            IN  IF current_password = "" \/ new_password = ""
                THEN /\ app_response' = Answer(400, NoJwt)
                     /\ UNCHANGED <<app_users, superseded>>
                ELSE IF user_id \notin DOMAIN app_users
                THEN /\ app_response' = Answer(500, NoJwt)
                     /\ UNCHANGED <<app_users, superseded>>
                ELSE IF ~check_password(app_users[user_id], current_password)
                THEN /\ app_response' = Answer(401, NoJwt)
                     /\ UNCHANGED <<app_users, superseded>>
                ELSE IF \/ ~validate_password(new_password)
                        \/ check_password(app_users[user_id], new_password)
                THEN /\ app_response' = Answer(400, NoJwt)
                     /\ UNCHANGED <<app_users, superseded>>
                ELSE /\ app_users' = [app_users EXCEPT ![user_id].password_hash =
                                          generate_password_hash(new_password)]
                     /\ superseded' = superseded \cup
                            {t \in DOMAIN jwts : jwts[t].sub = user_id}
                     /\ app_response' = Answer(200, NoJwt)

\* ---------------------------------------------------------------- data routes
create_client(token, data) ==
    /\ UNCHANGED <<now, serverVars, fastVars, in_flight, next_reset_token, locked_once, reset_history, wrong_attempts, app_users, jwts, inventory, bookings, payments,
                   logged_out, superseded>>
    /\ IF jwt_required(token) # 0
       THEN /\ app_response' = Answer(jwt_required(token), NoJwt)
            /\ UNCHANGED clients
       ELSE IF ~data.valid \/ (data.email # "" /\ \E c \in clients : c.email = data.email)
       THEN /\ app_response' = Answer(400, NoJwt)
            /\ UNCHANGED clients
       ELSE /\ NextRowId(clients) <= MaxRows
            /\ clients' = clients \cup {[id |-> NextRowId(clients), email |-> data.email]}
            /\ app_response' = Answer(201, NoJwt)

create_inventory_item(token, valid) ==
    /\ UNCHANGED <<now, serverVars, fastVars, in_flight, next_reset_token, locked_once, reset_history, wrong_attempts, app_users, jwts, clients, bookings, payments,
                   logged_out, superseded>>
    /\ IF jwt_required(token) # 0
       THEN /\ app_response' = Answer(jwt_required(token), NoJwt)
            /\ UNCHANGED inventory
       ELSE IF ~valid
       THEN /\ app_response' = Answer(400, NoJwt)
            /\ UNCHANGED inventory
       ELSE /\ NextRowId(inventory) <= MaxRows
            /\ inventory' = inventory \cup {[id |-> NextRowId(inventory)]}
            /\ app_response' = Answer(201, NoJwt)

create_booking(token, valid, client_id) ==
    /\ UNCHANGED <<now, serverVars, fastVars, in_flight, next_reset_token, locked_once, reset_history, wrong_attempts, app_users, jwts, clients, inventory, payments,
                   logged_out, superseded>>
    /\ IF jwt_required(token) # 0
       THEN /\ app_response' = Answer(jwt_required(token), NoJwt)
            /\ UNCHANGED bookings
       ELSE IF ~valid \/ ~\E c \in clients : c.id = client_id
       THEN /\ app_response' = Answer(400, NoJwt)
            /\ UNCHANGED bookings
       ELSE /\ NextRowId(bookings) <= MaxRows
            /\ bookings' = bookings \cup {[id |-> NextRowId(bookings), client_id |-> client_id]}
            /\ app_response' = Answer(201, NoJwt)

create_payment(token, valid, booking_id) ==
    /\ UNCHANGED <<now, serverVars, fastVars, in_flight, next_reset_token, locked_once, reset_history, wrong_attempts, app_users, jwts, clients, inventory, bookings,
                   logged_out, superseded>>
    /\ IF jwt_required(token) # 0
       THEN /\ app_response' = Answer(jwt_required(token), NoJwt)
            /\ UNCHANGED payments
       ELSE IF ~valid \/ ~\E b \in bookings : b.id = booking_id
       THEN /\ app_response' = Answer(400, NoJwt)
            /\ UNCHANGED payments
       ELSE /\ NextRowId(payments) <= MaxRows
            /\ payments' = payments \cup {[id |-> NextRowId(payments), booking_id |-> booking_id]}
            /\ app_response' = Answer(201, NoJwt)

\* update_client: a missing row answers 500, a ValidationError 400; of the columns
\* the model keeps, only the email is written.
update_client(token, client_id, data) ==
    /\ UNCHANGED <<now, serverVars, fastVars, in_flight, next_reset_token, locked_once, reset_history, wrong_attempts, app_users, jwts, inventory, bookings, payments,
                   logged_out, superseded>>
    /\ IF jwt_required(token) # 0
       THEN /\ app_response' = Answer(jwt_required(token), NoJwt)
            /\ UNCHANGED clients
       ELSE IF ~\E c \in clients : c.id = client_id
       THEN /\ app_response' = Answer(500, NoJwt)
            /\ UNCHANGED clients
       ELSE IF ~data.valid \/ (data.email # "" /\ \E c \in clients : c.email = data.email /\ c.id # client_id)
       THEN /\ app_response' = Answer(400, NoJwt)
            /\ UNCHANGED clients
       ELSE /\ clients' = {IF c.id = client_id THEN [c EXCEPT !.email = data.email] ELSE c : c \in clients}
            /\ app_response' = Answer(200, NoJwt)

\* update_booking writes status, booking_date, booking_time, service_type and notes:
\* neither id nor client_id, the two columns of a booking the model keeps.
update_booking(token, booking_id, valid) ==
    /\ UNCHANGED <<now, serverVars, fastVars, in_flight, next_reset_token, locked_once, reset_history, wrong_attempts, app_users, jwts, clients, inventory, payments,
                   logged_out, superseded>>
    /\ bookings' = {[b EXCEPT !.client_id = @] : b \in bookings}
    /\ app_response' = IF jwt_required(token) # 0 THEN Answer(jwt_required(token), NoJwt)
                       ELSE IF ~\E b \in bookings : b.id = booking_id THEN Answer(500, NoJwt)
                       ELSE IF ~valid THEN Answer(400, NoJwt)
                       ELSE Answer(200, NoJwt)

delete_client_with_bookings(token, client_id) ==
    /\ UNCHANGED <<now, serverVars, fastVars, in_flight, next_reset_token, locked_once, reset_history, wrong_attempts, app_users, jwts, inventory, bookings, payments,
                   logged_out, superseded>>
    /\ IF jwt_required(token) # 0
       THEN /\ app_response' = Answer(jwt_required(token), NoJwt)
            /\ UNCHANGED clients
       ELSE IF ~\E c \in clients : c.id = client_id
       THEN /\ app_response' = Answer(500, NoJwt)
            /\ UNCHANGED clients
       ELSE /\ clients' = {c \in clients : c.id # client_id}
            /\ app_response' = Answer(200, NoJwt)

\* get_or_404 raises inside the view's try block, whose except Exception answers 500.
delete_client(token, client_id) ==
    /\ UNCHANGED <<now, serverVars, fastVars, in_flight, next_reset_token, locked_once, reset_history, wrong_attempts, app_users, jwts, inventory, bookings, payments,
                   logged_out, superseded>>
    /\ IF jwt_required(token) # 0
       THEN /\ app_response' = Answer(jwt_required(token), NoJwt)
            /\ UNCHANGED clients
       ELSE IF ~\E c \in clients : c.id = client_id
       THEN /\ app_response' = Answer(500, NoJwt)
            /\ UNCHANGED clients
       ELSE IF \E b \in bookings : b.client_id = client_id
       THEN /\ app_response' = Answer(400, NoJwt)
            /\ UNCHANGED clients
       ELSE /\ clients' = {c \in clients : c.id # client_id}
            /\ app_response' = Answer(200, NoJwt)

delete_inventory_item(token, item_id) ==
    /\ UNCHANGED <<now, serverVars, fastVars, in_flight, next_reset_token, locked_once, reset_history, wrong_attempts, app_users, jwts, clients, bookings, payments,
                   logged_out, superseded>>
    /\ IF jwt_required(token) # 0
       THEN /\ app_response' = Answer(jwt_required(token), NoJwt)
            /\ UNCHANGED inventory
       ELSE IF ~\E i \in inventory : i.id = item_id
       THEN /\ app_response' = Answer(500, NoJwt)
            /\ UNCHANGED inventory
       ELSE /\ inventory' = {i \in inventory : i.id # item_id}
            /\ app_response' = Answer(200, NoJwt)

delete_booking(token, booking_id) ==
    /\ UNCHANGED <<now, serverVars, fastVars, in_flight, next_reset_token, locked_once, reset_history, wrong_attempts, app_users, jwts, clients, inventory, payments,
                   logged_out, superseded>>
    /\ IF jwt_required(token) # 0
       THEN /\ app_response' = Answer(jwt_required(token), NoJwt)
            /\ UNCHANGED bookings
       ELSE IF ~\E b \in bookings : b.id = booking_id
       THEN /\ app_response' = Answer(500, NoJwt)
            /\ UNCHANGED bookings
       ELSE IF \E p \in payments : p.booking_id = booking_id
       THEN /\ app_response' = Answer(400, NoJwt)
            /\ UNCHANGED bookings
       ELSE /\ bookings' = {b \in bookings : b.id # booking_id}
            /\ app_response' = Answer(200, NoJwt)

\* utcnow moves on by half a lockout.
LockClock ==
    /\ now + LockTick <= MaxLockNow
    /\ now' = now + LockTick
    /\ wrong_attempts' =
          [i \in DOMAIN app_users |->
              IF is_account_locked(app_users[i]) /\ app_users[i].account_locked_until <= now'
              THEN 0 ELSE wrong_attempts[i]]
    /\ UNCHANGED <<serverVars, fastVars, in_flight, app_users, jwts, appData, app_response, logged_out,
                   superseded, next_reset_token, locked_once, reset_history>>

\* utcnow moves on by half the lifetime of a reset token.
ResetTick == RESET_TOKEN_SECONDS \div 2

ResetClock ==
    /\ now + ResetTick <= MaxResetNow
    /\ now' = now + ResetTick
    /\ UNCHANGED <<serverVars, flaskVars, fastVars, in_flight>>

\* utcnow moves on by half a token lifetime.
AppClock ==
    /\ now + LongTick <= MaxAppNow
    /\ now' = now + LongTick
    /\ UNCHANGED <<serverVars, flaskVars, fastVars, in_flight>>

\* ---------------------------------------------------------------- customer portal
\* Faulty variant, for sensitivity: the SELECT has no WHERE clause.
my_vehicles_unfiltered(token) ==
    LET customer == verify_customer_session(token)
    IN  IF customer = None
        THEN Did("handle_customer_vehicles", token, FALSE, 401, {})
        ELSE Did("handle_customer_vehicles", token, TRUE, 200, {v.id : v \in vehicles})

\* The answer of handle_customer_vehicles: its status and the ids of the rows sent.
my_vehicles(token) ==
    LET customer == verify_customer_session(token)
    IN  IF customer = None
        THEN Did("handle_customer_vehicles", token, FALSE, 401, {})
        ELSE Did("handle_customer_vehicles", token, TRUE, 200,
                 {v.id : v \in {x \in vehicles : x.customer_id = customer.id}})

\* The answer of handle_customer_bookings.
my_bookings(token) ==
    LET customer == verify_customer_session(token)
    IN  IF customer = None
        THEN Did("handle_customer_bookings", token, FALSE, 401, {})
        ELSE Did("handle_customer_bookings", token, TRUE, 200,
                 {b.id : b \in {x \in garage_bookings : x.customer_id = customer.id}})

handle_customer_vehicles(token) ==
    /\ request' = my_vehicles(token)
    /\ UNCHANGED <<now, flaskVars, fastVars, in_flight, authVars, dbVars, response, vehicles, services, next_id,
                   foreign_keys, shopVars>>

handle_customer_bookings(token) ==
    /\ request' = my_bookings(token)
    /\ UNCHANGED <<now, flaskVars, fastVars, in_flight, authVars, dbVars, response, vehicles, services, next_id,
                   foreign_keys, shopVars>>

\* ---------------------------------------------------------------- routers/services.py
\* A DateTime is written as a text, NULL as "NULL"; utcnow is the text of the clock.
utcnow == <<"00:00", "00:01", "00:02", "00:03">>[now + 1]

ServiceStatus == {"pending", "in_progress", "completed"}

\* ServiceCreate bodies: status has a default, technician is optional.
ServiceCreate == [status : {"pending", "completed"}, technician : {"", "Ann"}]

\* ServiceUpdate bodies, as model_dump(exclude_unset=True) returns them: the fields
\* that were sent, with their values. A date sent is one no clock of the model shows.
ServiceUpdate ==
    {body \in UNION {[fields -> ServiceStatus \cup {"", "Ann"} \cup {"NULL", "12:00"}] :
                        fields \in SUBSET {"status", "technician", "completed_date"}} :
        /\ "status" \in DOMAIN body => body["status"] \in ServiceStatus
        /\ "technician" \in DOMAIN body => body["technician"] \in {"", "Ann"}
        /\ "completed_date" \in DOMAIN body => body["completed_date"] \in {"NULL", "12:00"}}

\* A run creates one service.
create_service(service) ==
    LET id == Len(api_services) + 1
    IN  /\ id = 1
        /\ api_services' = Append(api_services,
               [status |-> service.status, technician |-> service.technician,
                completed_date |-> "NULL", updated_at |-> "NULL"])
        /\ api_response' = [op |-> "create_service", status |-> 201, service_id |-> id,
                            body |-> <<>>]
        /\ UNCHANGED <<now, authVars, dbVars, response, crudVars, app_users, jwts, appData,
                       app_response, logged_out, superseded, next_reset_token, locked_once,
                       reset_history, wrong_attempts, in_flight>>

\* Faulty variant, for sensitivity: the stamp does not override a date that was sent.
update_data_keeping_sent(db_service, body) ==
    IF /\ "status" \in DOMAIN body
       /\ body["status"] = "completed"
       /\ db_service.status # "completed"
       /\ "completed_date" \notin DOMAIN body
    THEN [f \in DOMAIN body \cup {"completed_date"} |->
             IF f = "completed_date" THEN utcnow ELSE body[f]]
    ELSE body

\* update_service, lines 98-104: the fields to write.
update_data(db_service, body) ==
    IF /\ "status" \in DOMAIN body
       /\ body["status"] = "completed"
       /\ db_service.status # "completed"
    THEN [f \in DOMAIN body \cup {"completed_date"} |->
             IF f = "completed_date" THEN utcnow ELSE body[f]]
    ELSE body

\* update_service; the UPDATE that a changed row causes also stamps updated_at
\* (onupdate=func.now()).
update_service(service_id, body) ==
    /\ UNCHANGED <<now, authVars, dbVars, response, crudVars, app_users, jwts, appData,
                   app_response, logged_out, superseded, next_reset_token, locked_once,
                   reset_history, wrong_attempts, in_flight>>
    /\ IF service_id \notin DOMAIN api_services
       THEN /\ api_response' = [op |-> "update_service", status |-> 404,
                                service_id |-> service_id, body |-> body]
            /\ UNCHANGED api_services
       ELSE LET db_service == api_services[service_id]
                data == update_data(db_service, body)
                written == [f \in DOMAIN db_service |->
                               IF f \in DOMAIN data THEN data[f] ELSE db_service[f]]
            IN  /\ api_services' = [api_services EXCEPT ![service_id] =
                        IF written = db_service THEN db_service
                        ELSE [written EXCEPT !.updated_at = utcnow]]
                /\ api_response' = [op |-> "update_service", status |-> 200,
                                    service_id |-> service_id, body |-> body]

\* utcnow moves on by one.
ApiClock ==
    /\ now + 1 <= MaxApiNow
    /\ now' = now + 1
    /\ UNCHANGED <<serverVars, flaskVars, fastVars, in_flight>>

\* ---------------------------------------------------------------- audit records
\* The audit records the database holds: init_database creates no table for them and
\* no handler writes one, so there are none in any state.
audit_log == <<>>

\* ---------------------------------------------------------------- registration
\* The bodies POST /api/customer/register is sent: an address that is new or already
\* registered, a password with or without an uppercase letter.
RegisterData ==
    [email : {NewEmail, OtherEmail}, password : {"customer123", "Customer123"},
     name : {"New Customer"}]

\* handle_customer_register: a customers row when the address has none, and an active
\* customer_users row; no session.
handle_customer_register(data) ==
    LET email == strip_lower(data.email)
        existing_customer == {c \in customers : c.email = email}
        customer_id == IF existing_customer # {}
                       THEN (CHOOSE c \in existing_customer : TRUE).id
                       ELSE next_id.customers
    IN  /\ UNCHANGED <<now, flaskVars, fastVars, in_flight, users, authVars, vehicles, services, foreign_keys, shopVars,
                       request>>
        /\ response' = Reply(IF \/ email = "" \/ data.password = "" \/ data.name = ""
                                \/ ~email_matches_pattern(email)
                                \/ PasswordShape[data.password].len < 8
                                \/ ~PasswordShape[data.password].upper
                                \/ ~PasswordShape[data.password].lower
                                \/ ~PasswordShape[data.password].digit
                                \/ \E cu \in customer_users : cu.email = email
                             THEN 400 ELSE 200, NoToken, FALSE, FALSE)
        /\ IF response'.status = 400
           THEN UNCHANGED <<customers, customer_users, next_id>>
           ELSE /\ existing_customer = {} => next_id.customers <= MaxCustomerId
                /\ customers' = IF existing_customer # {} THEN customers
                                ELSE customers \cup {[id |-> customer_id, email |-> email]}
                /\ next_id' = IF existing_customer # {} THEN next_id
                              ELSE [next_id EXCEPT !.customers = @ + 1]
                /\ customer_users' = customer_users \cup
                       {[customer_id |-> customer_id, email |-> email, status |-> "active",
                         password_hash |-> hash_password(data.password, "salt3")]}

\* ---------------------------------------------------------------- init_database
\* The statuses handle_customer_login tells apart; pending_verification is the column
\* default that the migration gives the accounts of an older database.
CustomerStatuses == {"active", "suspended", "pending_verification"}

\* The databases the two programs start on: fk is the foreign-key enforcement of the
\* SQLite build (no connection of the server sets the pragma), status the status of
\* the second customer account and active the is_active column of the Flask admin.
BootWith(fk, status, active) ==
    /\ now = 0
    /\ login_attempts = <<>>
    /\ users = {[id |-> 1, username |-> "admin", role |-> "admin",
                 password_hash |-> hash_password("admin123", "salt1")]}
    /\ sessions = {}
    /\ customers = {[id |-> 1, email |-> SharedName], [id |-> 2, email |-> OtherEmail],
                    [id |-> 3, email |-> "mike.w@email.com"]}
    /\ customer_users =
          {[customer_id |-> 1, email |-> SharedName, status |-> "active",
            password_hash |-> hash_password("customer123", "salt2")],
           [customer_id |-> 2, email |-> OtherEmail, status |-> status,
            password_hash |-> hash_password("customer123", "salt2")]}
    /\ customer_sessions = {}
    /\ next_token = 1
    /\ issued = <<>>
    /\ response = Reply(0, NoToken, FALSE, FALSE)
    /\ vehicles = {[id |-> 1, customer_id |-> 1, license_plate |-> "ABC-123"],
                   [id |-> 2, customer_id |-> 1, license_plate |-> "XYZ-789"],
                   [id |-> 3, customer_id |-> 2, license_plate |-> "DEF-456"],
                   [id |-> 4, customer_id |-> 3, license_plate |-> "GHI-789"]}
    /\ services = {[id |-> 1, vehicle_id |-> 1], [id |-> 2, vehicle_id |-> 2],
                   [id |-> 3, vehicle_id |-> 3], [id |-> 4, vehicle_id |-> 4]}
    /\ next_id = [customers |-> 4, vehicles |-> 5, services |-> 5, bookings |-> 4]
    /\ technicians = {[id |-> 1, status |-> "available", current_workload |-> 2],
                      [id |-> 2, status |-> "available", current_workload |-> 1],
                      [id |-> 3, status |-> "available", current_workload |-> 0],
                      [id |-> 4, status |-> "available", current_workload |-> 0]}
    /\ garage_bookings = {[id |-> 1, customer_id |-> 1, assigned_technician_id |-> 4],
                          [id |-> 2, customer_id |-> 2, assigned_technician_id |-> 2],
                          [id |-> 3, customer_id |-> 3, assigned_technician_id |-> 3]}
    /\ foreign_keys = fk
    /\ request = NoRequest
    /\ app_users =
          [id \in {1, 2} |->
              [username |-> IF id = 1 THEN "admin" ELSE "staff",
               role |-> IF id = 1 THEN "admin" ELSE "staff",
               password_hash |-> generate_password_hash(
                                    IF id = 1 THEN "Admin@123" ELSE "Staff@123"),
               is_active |-> (id = 1 => active),
               email |-> IF id = 1 THEN "admin@autocare.com" ELSE "staff@autocare.com",
               reset_token |-> 0,
               reset_token_expiry |-> 0,
               failed_login_attempts |-> 0,
               account_locked_until |-> 0]]
    /\ jwts = <<>>
    /\ clients = {}
    /\ inventory = {}
    /\ bookings = {}
    /\ payments = {}
    /\ app_response = Answer(0, NoJwt)
    /\ logged_out = {}
    /\ superseded = {}
    /\ next_reset_token = 1
    /\ locked_once = {}
    /\ reset_history = <<>>
    /\ wrong_attempts = [i \in DOMAIN app_users |-> 0]
    /\ in_flight = [r \in 1..MaxRequests |-> Idle]
    /\ api_services = <<>>
    /\ api_response = [op |-> "", status |-> 0, service_id |-> 0, body |-> <<>>]

\* The database init_database leaves on first start.
Boot(fk) == BootWith(fk, "active", TRUE)

\* SQLite's stock default: foreign keys are not enforced.
Init == Boot(FALSE)

\* Databases whose accounts were suspended, left pending or deactivated.
InitLogin ==
    \E status \in CustomerStatuses, active \in BOOLEAN :
        (status = "active" \/ active) /\ BootWith(FALSE, status, active)

InitCrud == \E fk \in BOOLEAN : Boot(fk)

\* The logins and the rate limiter, over the limiter's window.
Next ==
    \/ \E username \in Usernames, password \in Passwords : handle_login(username, password)
    \/ \E email \in Emails, password \in Passwords : handle_customer_login(email, password)
    \/ Tick

Spec == Init /\ [][Next]_vars

\* The logins and the session stores, over the sessions' lifetime.
NextSession ==
    \/ \E username \in SessionUsernames, password \in Passwords :
          handle_login(username, password)
    \/ \E email \in SessionEmails, password \in {"", "customer123"} :
          handle_customer_login(email, password)
    \/ handle_health_check
    \/ AdvanceClock

SpecSession == Init /\ [][NextSession]_vars

\* The administration API: do_GET, do_POST, do_PUT and do_DELETE route to the handlers
\* by path alone.
NextCrud ==
    \/ handle_login("admin", "admin123")
    \/ \E token \in RequestTokens : handle_get_customers(token)
    \/ \E token \in RequestTokens : handle_get_vehicles(token)
    \/ \E token \in RequestTokens : handle_get_services(token)
    \/ \E token \in RequestTokens, data \in CustomerData : handle_add_customer(token, data)
    \/ \E token \in RequestTokens, data \in VehicleData : handle_add_vehicle(token, data)
    \/ \E token \in RequestTokens, data \in ServiceData : handle_add_service(token, data)
    \/ \E token \in RequestTokens, id \in CustomerIds, data \in CustomerData :
          handle_update_customer(token, id, data)
    \/ \E token \in RequestTokens, id \in VehicleIds, data \in VehicleData :
          handle_update_vehicle(token, id, data)
    \/ \E token \in RequestTokens, id \in ServiceIds, data \in ServiceData :
          handle_update_service(token, id, data)
    \/ \E token \in RequestTokens, id \in CustomerIds : handle_delete_customer(token, id)
    \/ \E token \in RequestTokens, id \in VehicleIds : handle_delete_vehicle(token, id)
    \/ \E token \in RequestTokens, id \in ServiceIds : handle_delete_service(token, id)

SpecCrud == InitCrud /\ [][NextCrud]_vars

\* app1.py: accounts, tokens and passwords, over the tokens' lifetime.
NextFlaskAuth ==
    \/ \E r \in LoginRequests : login(r[1], r[2])
    \/ \E token \in PresentedJwts : verify_token(token)
    \/ \E token \in PresentedJwts : logout(token)
    \/ \E token \in PresentedJwts, current \in CurrentPasswords, new \in NewPasswords :
          change_password(token, current, new)
    \/ AppClock

SpecFlaskAuth == Init /\ [][NextFlaskAuth]_vars

\* app1.py: the account lockout, over the lockout's length.
NextFlaskLock ==
    \/ \E r \in LockLogins : login(r[1], r[2])
    \/ \E email \in LockEmails :
          /\ email = MixedCaseStaffEmail => next_reset_token <= MaxLockResets
          /\ forgot_password(email)
    \/ \E token \in PresentedResetTokens, password \in ResetPasswords :
          reset_password(token, password)
    \/ \E token \in DOMAIN jwts : change_password(token, "Staff@123", "New@12345")
    \/ LockClock

SpecFlaskLock == Init /\ [][NextFlaskLock]_vars

\* app1.py: the password reset of the staff user, over more than a token's lifetime;
\* a wrong password beforehand gives failed_login_attempts something to keep.
NextFlaskReset ==
    \/ login("staff", "Admin@123")
    \/ forgot_password(MixedCaseStaffEmail)
    \/ \E token \in PresentedResetTokens, password \in ResetPasswords :
          reset_password(token, password)
    \/ ResetClock

SpecFlaskReset == Init /\ [][NextFlaskReset]_vars

\* app1.py: wrong passwords for the staff user, sent at the same time.
NextRace ==
    \/ \E r \in 1..MaxRequests : login_query(r, "staff", "Admin@123")
    \/ \E r \in 1..MaxRequests : login_commit(r)

SpecRace == Init /\ [][NextRace]_vars

\* routers/services.py: services are created and updated as time passes.
NextApi ==
    \/ \E service \in ServiceCreate : create_service(service)
    \/ \E id \in {1, 2}, body \in ServiceUpdate : update_service(id, body)
    \/ ApiClock

SpecApi == Init /\ [][NextApi]_vars

\* Accounts that come and go under the sessions issued to them.
NextAccounts ==
    \/ handle_login("admin", "admin123")
    \/ handle_customer_login(SharedName, "customer123")
    \/ \E token \in RequestTokens, id \in CustomerIds : handle_delete_customer(token, id)
    \/ \E token \in RequestTokens : handle_add_customer(token, [complete |-> TRUE, email |-> SharedName])
    \/ handle_health_check
    \/ AdvanceClock

SpecAccounts == InitCrud /\ [][NextAccounts]_vars

\* The customer portal, with the tokens of both logins, while customers are deleted
\* and sessions run out.
NextPortal ==
    \/ handle_login("admin", "admin123")
    \/ \E email \in SessionEmails : handle_customer_login(email, "customer123")
    \/ \E token \in RequestTokens : handle_customer_vehicles(token)
    \/ \E token \in RequestTokens : handle_customer_bookings(token)
    \/ \E token \in RequestTokens : handle_delete_customer(token, 1)
    \/ AdvanceClock

SpecPortal == InitCrud /\ [][NextPortal]_vars

\* The workshop: bookings and the technicians they are assigned to.
NextShop ==
    \/ \E data \in BookingData : handle_add_booking(NoToken, data)
    \/ \E id \in BookingIds : handle_delete_booking(NoToken, id)
    \/ \E id \in TechnicianIds, data \in TechnicianData :
          handle_update_technician(NoToken, id, data)

SpecShop == Init /\ [][NextShop]_vars

\* The bookings of the workshop are added, rewritten and deleted; technician 1, who
\* has no booking in the database init_database creates, can be deleted.
NextBookings ==
    \/ \E data \in BookingData : handle_add_booking(NoToken, data)
    \/ \E id \in {2, 3}, data \in BookingData : handle_update_booking(NoToken, id, data)
    \/ \E id \in {1, 2, 3, 4} : handle_delete_booking(NoToken, id)
    \/ handle_delete_technician(NoToken, 1)

SpecBookings == Init /\ [][NextBookings]_vars

\* Every operation of the two programs that takes a username or email and a password.
\* garage_server.py and app1.py are separate processes over separate databases: no
\* step of one reads or writes what the other holds, so a run is followed for one of
\* the two, the other being left as it started.
CustomerLogins ==
    {<<OtherEmail, "customer123">>, <<OtherEmail, "Customer123">>, <<NewEmail, "Customer123">>}
GrantLogins ==
    {<<"admin", "Admin@123">>, <<"staff", "Staff@123">>, <<"staff", "Admin@123">>,
     <<"staff", "">>, <<"nobody", "Staff@123">>}
ServerIdle == response.status = 0
FlaskIdle == app_response.status = 0

NextLogin ==
    \/ FlaskIdle /\ \E password \in Passwords : handle_login("admin", password)
    \/ FlaskIdle /\ \E r \in CustomerLogins : handle_customer_login(r[1], r[2])
    \/ FlaskIdle /\ \E data \in RegisterData : handle_customer_register(data)
    \/ ServerIdle /\ \E r \in GrantLogins : login(r[1], r[2])

SpecLogin == InitLogin /\ [][NextLogin]_vars

\* app1.py: the data routes, as the two users of init_db.
NextFlaskData ==
    \/ login("admin", "Admin@123")
    \/ login("staff", "Staff@123")
    \/ \E token \in PresentedJwts, data \in ClientData : create_client(token, data)
    \/ \E token \in PresentedJwts, valid \in BOOLEAN : create_inventory_item(token, valid)
    \/ \E token \in PresentedJwts, valid \in BOOLEAN, id \in RowIds :
          create_booking(token, valid, id)
    \/ \E token \in PresentedJwts, valid \in BOOLEAN, id \in RowIds :
          create_payment(token, valid, id)
    \/ \E token \in PresentedJwts, id \in RowIds : delete_client(token, id)
    \/ \E token \in PresentedJwts, id \in RowIds : delete_inventory_item(token, id)
    \/ \E token \in PresentedJwts, id \in RowIds : delete_booking(token, id)

SpecFlaskData == Init /\ [][NextFlaskData]_vars

\* app1.py: the create, update and delete routes of clients, bookings and payments
\* (payments have a create route only), as the admin of init_db or with no token.
RefTokens == {NoJwt} \cup DOMAIN jwts

NextFlaskRefs ==
    \/ login("admin", "Admin@123")
    \/ \E token \in RefTokens, data \in ClientData : create_client(token, data)
    \/ \E token \in RefTokens, id \in RowIds, data \in ClientData : update_client(token, id, data)
    \/ \E token \in RefTokens, id \in RowIds : delete_client(token, id)
    \/ \E token \in RefTokens, valid \in BOOLEAN, id \in RowIds : create_booking(token, valid, id)
    \/ \E token \in RefTokens, valid \in BOOLEAN, id \in RowIds : update_booking(token, id, valid)
    \/ \E token \in RefTokens, id \in RowIds : delete_booking(token, id)
    \/ \E token \in RefTokens, valid \in BOOLEAN, id \in RowIds : create_payment(token, valid, id)

SpecFlaskRefs == Init /\ [][NextFlaskRefs]_vars

\* ================================================================ claims
\* The identifiers of the two credential namespaces, as the claims name them, for the
\* username or email a request carries.
AdminKey(x) == "admin_" \o strip(x)

CustomerKey(y) == "customer_" \o strip_lower(y)

AttemptsOf(la, key) == IF key \in DOMAIN la THEN la[key] ELSE <<-1>>

Young(ts) == now - ts < LOGIN_ATTEMPT_WINDOW

\* The recorded failures of key that are younger than the window.
RecentList(key) ==
    IF key \in DOMAIN login_attempts THEN SelectSeq(login_attempts[key], Young) ELSE <<>>

RecentFailures(key) == Len(RecentList(key))

ExpiryOf(t) == issued[t].at + SESSION_SECONDS

NoSessionCreated ==
    /\ sessions' = sessions
    /\ customer_sessions' = customer_sessions
    /\ issued' = issued

RateLimited == response'.status = 429 /\ ~response'.lookup /\ NoSessionCreated

C4_State ==
    \A t \in DOMAIN issued :
        /\ \A s \in sessions \cup customer_sessions :
              s.token = t => s.expires_at = issued[t].at + SESSION_SECONDS
        /\ now > ExpiryOf(t) =>
              verify_session(t) = None /\ verify_customer_session(t) = None

C4_Step ==
    /\ now' >= now
    /\ \A s \in sessions : \A s2 \in sessions' :
          s2.token = s.token => s2.expires_at = s.expires_at
    /\ \A s \in customer_sessions : \A s2 \in customer_sessions' :
          s2.token = s.token => s2.expires_at = s.expires_at

\* C4: a session's expires_at is its creation time plus 24 hours, no step changes it,
\* and once the clock has passed it neither verify_session nor verify_customer_session
\* resolves the token.
C4_ExpiryIsFixedAndFinal == []C4_State /\ [][C4_Step]_vars

\* C4 witness: a session row that outlived its expires_at and no longer resolves.
C4_Witness ==
    \E s \in sessions :
        /\ s.token \in DOMAIN issued
        /\ now > s.expires_at
        /\ verify_session(s.token) = None

\* C7 as stated: every login attempt whose identifier has 5 or more failures younger
\* than 300 seconds is answered 429, before any lookup, and creates no session.
C7_Original ==
    [][ /\ \A u \in Usernames, p \in Passwords :
              RecentFailures(AdminKey(u)) >= MAX_LOGIN_ATTEMPTS /\ handle_login(u, p)
                  => RateLimited
        /\ \A e \in Emails, p \in Passwords :
              RecentFailures(CustomerKey(e)) >= MAX_LOGIN_ATTEMPTS /\ handle_customer_login(e, p)
                  => RateLimited ]_vars

\* C7 amended: every login attempt that carries a non-empty identifier and a non-empty
\* password, and whose identifier has 5 or more failures younger than 300 seconds, is
\* answered 429, before any lookup, and creates no session, whatever the password.
C7_RateLimitedBeforeLookup ==
    [][ /\ \A u \in Usernames, p \in Passwords \ {""} :
              RecentFailures(AdminKey(u)) >= MAX_LOGIN_ATTEMPTS /\ handle_login(u, p)
                  => RateLimited
        /\ \A e \in Emails, p \in Passwords \ {""} :
              RecentFailures(CustomerKey(e)) >= MAX_LOGIN_ATTEMPTS /\ handle_customer_login(e, p)
                  => RateLimited ]_vars

\* C7 witness: an attempt with the correct password was answered 429 after 5 failures.
C7_Witness ==
    /\ response.status = 429 /\ response.valid /\ ~response.lookup
    /\ issued = <<>>
    /\ RecentFailures(AdminKey("admin")) >= MAX_LOGIN_ATTEMPTS

C8_State ==
    \A key \in DOMAIN login_attempts \cup {AdminKey("admin"), CustomerKey(SharedName)} :
        check_rate_limit(key) <=> RecentFailures(key) < MAX_LOGIN_ATTEMPTS

C8_Step ==
    /\ \A u \in Usernames, p \in Passwords :
          response'.status = 401 /\ handle_login(u, p)
              => RecentFailures(AdminKey(u))' = RecentFailures(AdminKey(u)) + 1
    /\ \A e \in Emails, p \in Passwords :
          response'.status = 401 /\ handle_customer_login(e, p)
              => RecentFailures(CustomerKey(e))' = RecentFailures(CustomerKey(e)) + 1

\* C8: check_rate_limit answers true exactly while fewer than 5 of the identifier's
\* recorded failures are younger than 300 seconds, and each failed login records one.
C8_AllowedIffFewerThanFive == []C8_State /\ [][C8_Step]_vars

\* C8 witness: an identifier that holds 5 failures, of which the oldest has aged out
\* of the window, is allowed again.
C8_Witness ==
    \E key \in DOMAIN login_attempts :
        /\ Len(login_attempts[key]) >= MAX_LOGIN_ATTEMPTS
        /\ RecentFailures(key) \in 1..(MAX_LOGIN_ATTEMPTS - 1)
        /\ check_rate_limit(key)

\* C9: a successful login leaves the identifier's failures younger than the window
\* as they were.
C9_SuccessKeepsFailures ==
    [][ /\ \A u \in Usernames, p \in Passwords :
              response'.status = 200 /\ handle_login(u, p)
                  => RecentList(AdminKey(u))' = RecentList(AdminKey(u))
        /\ \A e \in Emails, p \in Passwords :
              response'.status = 200 /\ handle_customer_login(e, p)
                  => RecentList(CustomerKey(e))' = RecentList(CustomerKey(e)) ]_vars

\* C9 witness: right after a successful admin login the identifier still counts the
\* failures recorded before it.
C9_Witness ==
    /\ response.status = 200
    /\ response.token \in DOMAIN issued
    /\ issued[response.token].kind = "admin"
    /\ RecentFailures(AdminKey(issued[response.token].name)) = MAX_LOGIN_ATTEMPTS - 1

C10_Keys == DOMAIN login_attempts \cup DOMAIN login_attempts'

\* The lists of all keys but own are as they were.
C10_OnlyChanges(own) ==
    \A key \in C10_Keys \ {own} :
        AttemptsOf(login_attempts', key) = AttemptsOf(login_attempts, key)

\* check_rate_limit answers for each of keys as it did.
C10_SameAnswers(keys) ==
    \A key \in keys : check_rate_limit(key)' = check_rate_limit(key)

\* C10: an admin login for x changes at most the list keyed "admin_" + x and a customer
\* login for y at most the list keyed "customer_" + y, and neither changes the answer
\* of check_rate_limit for an identifier of the other namespace.
C10_NamespacesAreSeparate ==
    [][ /\ \A u \in Usernames :
              \/ /\ C10_OnlyChanges(AdminKey(u))
                 /\ C10_SameAnswers({CustomerKey(y) : y \in Emails})
              \/ \A p \in Passwords : ~handle_login(u, p)
        /\ \A e \in Emails :
              \/ /\ C10_OnlyChanges(CustomerKey(e))
                 /\ C10_SameAnswers({AdminKey(x) : x \in Usernames})
              \/ \A p \in Passwords : ~handle_customer_login(e, p) ]_vars

\* C10 witness: the admin identifier of a name is locked out while the customer
\* identifier of the same name has just logged in.
C10_Witness ==
    /\ ~check_rate_limit(AdminKey(SharedName))
    /\ check_rate_limit(CustomerKey(SharedName))
    /\ response.status = 200
    /\ \E t \in DOMAIN issued :
          issued[t].kind = "customer" /\ issued[t].name = SharedName /\ issued[t].at = now

\* ---------------------------------------------------------------- C1
\* C1: in garage_server.py no request on customers, vehicles or services whose token
\* does not resolve through verify_session reads or changes rows: a request that ran
\* its database statements carried a token that verify_session resolved.
C1_HandlersAuthenticateFirst == request.executed => request.authenticated

\* ---------------------------------------------------------------- C2
RoleOf(token) == app_users[get_jwt_identity(token)].role

StaffTokens == {t \in DOMAIN jwts : jwt_required(t) = 0 /\ RoleOf(t) = "staff"}

Forbidden == app_response'.status = 403 /\ UNCHANGED appData

\* C2: a delete request (client, inventory item, booking) presented with a valid token
\* of a user whose role is 'staff' is answered 403 Forbidden and deletes nothing.
C2_StaffDeleteIsForbidden ==
    [][\A t \in StaffTokens, id \in RowIds :
          /\ delete_client(t, id) => Forbidden
          /\ delete_inventory_item(t, id) => Forbidden
          /\ delete_booking(t, id) => Forbidden]_vars

\* ---------------------------------------------------------------- C5
\* A request that presents the token to one of the token-guarded auth routes.
Presents(t) ==
    \/ verify_token(t)
    \/ logout(t)
    \/ \E current \in CurrentPasswords, new \in NewPasswords : change_password(t, current, new)

\* C5: once logout(token) has completed, every later request presenting that token is
\* answered 401 Unauthenticated.
C5_LoggedOutTokenFails ==
    [][\A t \in logged_out : Presents(t) => app_response'.status = 401]_vars

\* ---------------------------------------------------------------- C6
\* C6: after a successful password change of user u, every token issued to u before it
\* fails to validate: a request presenting it is answered 401.
C6_PasswordChangeRevokes ==
    [][\A t \in superseded : verify_token(t) => app_response'.status = 401]_vars

\* ---------------------------------------------------------------- C11
\* The users row a login request for raw_username reads.
AccountOf(raw_username) ==
    {id \in DOMAIN app_users : app_users[id].username = strip_lower(raw_username)}

LockInFuture(id) == app_users[id].account_locked_until > now

\* The wrong-password attempt that brings failed_login_attempts to 5 or more locks the
\* account for 30 minutes from that attempt and is answered 403.
C11_FifthFailureLocks ==
    \A id \in DOMAIN app_users :
        /\ app_users'[id].failed_login_attempts > app_users[id].failed_login_attempts
        /\ app_users'[id].failed_login_attempts >= MAX_FAILED_LOGINS
        => /\ app_users'[id].account_locked_until = now + LOCK_SECONDS
           /\ app_response'.status = 403

\* C11 as stated: the failure that reaches 5 locks the account for 30 minutes, and every
\* login for a user whose account_locked_until lies in the future is answered 403,
\* whatever password is submitted.
C11_Original ==
    [][ /\ C11_FifthFailureLocks
        /\ \A r \in LockLogins : \A id \in AccountOf(r[1]) :
              LockInFuture(id) /\ login(r[1], r[2]) => app_response'.status = 403 ]_vars

\* C11 amended: the failure that reaches 5 locks the account for 30 minutes, and every
\* login that carries a non-empty password for a user whose account_locked_until lies
\* in the future is answered 403 (not 401), whether or not the password is correct.
C11_LockedLoginIsRefused ==
    [][ /\ C11_FifthFailureLocks
        /\ \A r \in LockLogins : \A id \in AccountOf(r[1]) :
              LockInFuture(id) /\ r[2] # "" /\ login(r[1], r[2]) =>
                  /\ app_response'.status = 403
                  /\ app_response'.access_token = NoJwt
                  /\ UNCHANGED <<app_users, jwts>> ]_vars

\* C11 witness: a quarter of an hour into a lockout a login was answered with the
\* locked outcome.
C11_Witness ==
    \E id \in DOMAIN app_users :
        /\ app_users[id].failed_login_attempts >= MAX_FAILED_LOGINS
        /\ app_users[id].account_locked_until = now + LockTick
        /\ app_response.status = 403
        /\ app_response.message[2] = LockTick \div 60

\* ---------------------------------------------------------------- C12
TokensOf(table, id) == {t \in DOMAIN table : table[t].sub = id}

C12_State ==
    \A id \in DOMAIN app_users :
        app_users[id].failed_login_attempts >= MAX_FAILED_LOGINS
            => app_users[id].account_locked_until # 0

C12_Step ==
    /\ \A id \in DOMAIN app_users :
          app_users[id].failed_login_attempts >= MAX_FAILED_LOGINS /\ LockInFuture(id)
              => TokensOf(jwts', id) = TokensOf(jwts, id)
    /\ \A r \in LockLogins : \A id \in AccountOf(r[1]) :
          /\ app_users[id].failed_login_attempts >= MAX_FAILED_LOGINS
          /\ ~LockInFuture(id)
          /\ r[2] # "" /\ check_password(app_users[id], r[2])
          /\ login(r[1], r[2])
          => /\ app_response'.status = 200
             /\ TokensOf(jwts', id) = TokensOf(jwts, id) \cup {app_response'.access_token}
             /\ app_response'.access_token \notin DOMAIN jwts
             /\ app_users'[id].failed_login_attempts = 0
             /\ app_users'[id].account_locked_until = 0

\* C12: over login, forgot-password, reset-password and change-password, a user whose
\* failed_login_attempts is 5 or more has a lockout set and is signed no access token
\* while account_locked_until lies in the future; a correct-password login after it has
\* elapsed succeeds and sets failed_login_attempts to 0 and account_locked_until to none.
C12_LockedUserGetsNoToken == []C12_State /\ [][C12_Step]_vars

\* C12 witness: a user who was locked and asked for no password reset has logged in
\* after the lockout elapsed, and the counters are reset.
C12_Witness ==
    \E id \in locked_once :
        /\ next_reset_token = 1
        /\ app_response.status = 200
        /\ app_response.access_token \in TokensOf(jwts, id)
        /\ jwts[app_response.access_token].exp = now + JWT_ACCESS_TOKEN_EXPIRES
        /\ app_users[id].failed_login_attempts = 0
        /\ app_users[id].account_locked_until = 0

\* ---------------------------------------------------------------- C13
\* The outcome of one login step of the server: named and verifies describe the request
\* (the identifier names an account, the password verifies against its stored hash),
\* before and after are the session table.
LoginOutcome(named, verifies, before, after) ==
    /\ (response'.token # NoToken) <=> (response'.status = 200)
    /\ (response'.status = 200) <=> (after # before)
    /\ response'.status = 200 =>
          /\ named /\ verifies
          /\ before \subseteq after
          /\ Cardinality(after \ before) = 1
          /\ \A s \in after \ before : s.token = response'.token
          /\ \A s \in sessions \cup customer_sessions : s.token # response'.token
    /\ named /\ verifies => response'.status \in {200, 400, 429, 403}
    /\ response'.status \in {200, 400, 401, 403, 429}

C13_Step ==
    /\ sessions' # sessions => \E p \in Passwords : handle_login("admin", p)
    /\ customer_sessions' # customer_sessions =>
          \E r \in CustomerLogins : handle_customer_login(r[1], r[2])
    /\ jwts' # jwts => \E r \in GrantLogins : login(r[1], r[2])
    /\ \A p \in Passwords :
          handle_login("admin", p) =>
              /\ LoginOutcome(\E u \in users : u.username = "admin",
                              \E u \in users : /\ u.username = "admin"
                                                /\ verify_password(p, u.password_hash),
                              sessions, sessions')
              /\ \A s \in sessions' \ sessions :
                    \E u \in users : u.id = s.user_id /\ u.username = "admin"
    /\ \A r \in CustomerLogins :
          handle_customer_login(r[1], r[2]) =>
              /\ LoginOutcome(\E cu \in customer_users : cu.email = r[1],
                              \E cu \in customer_users :
                                  /\ cu.email = r[1]
                                  /\ verify_password(r[2], cu.password_hash),
                              customer_sessions, customer_sessions')
              /\ \A s \in customer_sessions' \ customer_sessions :
                    \E cu \in customer_users :
                        cu.customer_id = s.customer_id /\ cu.email = r[1]
    /\ \A r \in GrantLogins :
          login(r[1], r[2]) =>
              LET named == AccountOf(r[1]) # {}
                  verifies == \E id \in AccountOf(r[1]) : check_password(app_users[id], r[2])
                  token == app_response'.access_token
              IN  /\ (token # NoJwt) <=> (app_response'.status = 200)
                  /\ (app_response'.status = 200) <=> (jwts' # jwts)
                  /\ app_response'.status = 200 =>
                        /\ named /\ verifies
                        /\ DOMAIN jwts' = DOMAIN jwts \cup {token}
                        /\ token \notin DOMAIN jwts
                        /\ jwts'[token].sub \in AccountOf(r[1])
                        /\ \A t \in DOMAIN jwts : jwts'[t] = jwts[t]
                  /\ named /\ verifies => app_response'.status \in {200, 400, 403}
                  /\ app_response'.status \in {200, 400, 401, 403}

Without(table, gone) == [id \in DOMAIN table \ gone |-> table[id]]

\* C14: for the users table and the table that differs from it only in that no account
\* has the submitted username, a login whose password does not grant access is
\* answered with the same status and the same message.
C14_FailedLoginHidesExistence ==
    \A r \in LockLogins :
        LET present == login_result(app_users, r[1], r[2])
            absent == login_result(Without(app_users, AccountOf(r[1])), r[1], r[2])
        IN  AccountOf(r[1]) # {} /\ ~present.grant =>
                /\ present.status = absent.status
                /\ present.message = absent.message

\* ---------------------------------------------------------------- C15
UsersWithEmail(raw_email) ==
    {id \in DOMAIN app_users : app_users[id].email = validate_email(raw_email)}

\* C15: for a well-formed email, forgot-password answers with the same status and the
\* same body fields (message, reset_link) whether or not an account has that email.
C15_ForgotPasswordHidesExistence ==
    \A e \in EmailInputs :
        LET present == forgot_password_result(app_users, e, next_reset_token)
            absent == forgot_password_result(Without(app_users, UsersWithEmail(e)), e,
                                             next_reset_token)
        IN  e # "" /\ email_matches_pattern(e) /\ UsersWithEmail(e) # {} =>
                /\ present.status = absent.status
                /\ present.message = absent.message
                /\ present.reset_link = absent.reset_link

\* ---------------------------------------------------------------- C16
\* The rows a token resolves to, and the table they are rows of.
ResolvedRows(t) ==
    IF issued[t].kind = "admin" THEN verify_session_rows(t) ELSE verify_customer_session_rows(t)

OwnerTable(t) == IF issued[t].kind = "admin" THEN users ELSE customers

Resolves(t) ==
    IF issued[t].kind = "admin" THEN verify_session(t) # None
    ELSE verify_customer_session(t) # None

OwnerRemoved(t) == \A r \in OwnerTable(t) : r.id # issued[t].id

C16_State ==
    /\ \A t \in DOMAIN issued :
          /\ Cardinality(ResolvedRows(t)) <= 1
          /\ ResolvedRows(t) \subseteq OwnerTable(t)
          /\ \A r \in ResolvedRows(t) : r.id = issued[t].id
          /\ Resolves(t) <=> ResolvedRows(t) # {}
          /\ OwnerRemoved(t) => ~Resolves(t)
    /\ \A t \in {NoToken, BadToken} :
          verify_session(t) = None /\ verify_customer_session(t) = None

C16_Step == \A t \in DOMAIN issued : OwnerRemoved(t) => OwnerRemoved(t)' /\ ~Resolves(t)'

\* C16: validating a token yields nothing or exactly one row that is currently in the
\* table of its accounts, the one the token was issued to; once that row has been
\* removed the token never resolves again, whether or not its session row still exists.
C16_TokenResolvesToLiveUser == []C16_State /\ [][C16_Step]_vars

\* C16 witness: the customer a token was issued to has been deleted and a customer with
\* the same email added again; the session row is still there and unexpired, and the
\* token resolves to nothing.
C16_Witness ==
    \E t \in DOMAIN issued :
        /\ issued[t].kind = "customer"
        /\ OwnerRemoved(t)
        /\ \E c \in customers : c.email = issued[t].name
        /\ \E cs \in customer_sessions : cs.token = t /\ cs.expires_at > now
        /\ verify_customer_session(t) = None

\* ---------------------------------------------------------------- C17
\* The session tables of the run in which no cleanup ever ran: every row that
\* create_session and create_customer_session inserted.
Uncleaned(kind) ==
    {[token |-> t, owner |-> issued[t].id, expires_at |-> ExpiryOf(t)] :
        t \in {x \in DOMAIN issued : issued[x].kind = kind}}

\* What the SELECT of verify_session / verify_customer_session finds in those tables.
UncleanedRows(kind, accounts, token) ==
    {a \in accounts : \E s \in Uncleaned(kind) :
        s.token = token /\ s.owner = a.id /\ s.expires_at > now}

SweptTokens == {t \in DOMAIN issued : \A s \in sessions \cup customer_sessions : s.token # t}

C17_State ==
    \A t \in DOMAIN issued \cup {NoToken, BadToken} :
        /\ verify_session_rows(t) = UncleanedRows("admin", users, t)
        /\ verify_customer_session_rows(t) = UncleanedRows("customer", customers, t)

C17_Step ==
    handle_health_check =>
        /\ \A t \in DOMAIN issued \cup {NoToken, BadToken} :
              /\ verify_session(t)' = verify_session(t)
              /\ verify_customer_session(t)' = verify_customer_session(t)
        /\ \A s \in (sessions \ sessions') \cup (customer_sessions \ customer_sessions') :
              /\ ~(s.expires_at > now)
              /\ verify_session(s.token) = None
              /\ verify_customer_session(s.token) = None
        /\ sessions' \subseteq sessions /\ customer_sessions' \subseteq customer_sessions
        /\ ExpiredRows(sessions') = {} /\ ExpiredRows(customer_sessions') = {}

\* C17: the cleanup that every health check runs deletes only session rows that
\* verify_session / verify_customer_session already reject at that moment; in every
\* reachable state every token validates to what it validates to in the run where no
\* cleanup deleted anything; and after a cleanup a second one at the same time finds
\* nothing to delete.
C17_CleanupIsInvisible == []C17_State /\ [][C17_Step]_vars

\* C17 witness: a health check has just swept the expired session of a token.
C17_Witness ==
    /\ response.status = 200 /\ response.token = NoToken
    /\ \E t \in SweptTokens : ExpiryOf(t) < now

\* ---------------------------------------------------------------- C18
\* A step that the audit log has to record: a login, or a create, update or delete
\* that was carried out.
Mutating ==
    {"handle_add_customer", "handle_add_vehicle", "handle_add_service",
     "handle_update_customer", "handle_update_vehicle", "handle_update_service",
     "handle_delete_customer", "handle_delete_vehicle", "handle_delete_service"}

AuditedStep ==
    \/ handle_login("admin", "admin123")
    \/ /\ request' # request
       /\ request'.handler \in Mutating
       /\ request'.executed /\ request'.status = 200

\* C18: every login and every successful create, update or delete appends one audit
\* record, and no step changes or removes a record that exists.
C18_EveryEventIsAudited ==
    [][ /\ AuditedStep => Len(audit_log') = Len(audit_log) + 1
        /\ Len(audit_log') >= Len(audit_log)
        /\ SubSeq(audit_log', 1, Len(audit_log)) = audit_log ]_vars

\* ---------------------------------------------------------------- C20
AvailableTechnicians == {t \in technicians : t.status = "available"}

\* The technicians table after the step differs from the one before exactly in that the
\* workload of the technicians in chosen is one higher.
OnlyWorkloadOf(chosen) ==
    /\ {t.id : t \in technicians'} = {t.id : t \in technicians}
    /\ Cardinality(technicians') = Cardinality(technicians)
    /\ \A t \in technicians : \E n \in technicians' :
          /\ n.id = t.id /\ n.status = t.status
          /\ n.current_workload = t.current_workload + (IF t.id \in chosen THEN 1 ELSE 0)

C20_Step ==
    \A data \in BookingData :
        /\ data.assigned_technician_id = 0
        /\ handle_add_booking(NoToken, data)
        /\ request'.status = 200
        => LET added == garage_bookings' \ garage_bookings
           IN  /\ Cardinality(added) = 1
               /\ garage_bookings \subseteq garage_bookings'
               /\ \A b \in added :
                     IF AvailableTechnicians # {}
                     THEN /\ \E t \in AvailableTechnicians :
                               /\ b.assigned_technician_id = t.id
                               /\ \A o \in AvailableTechnicians :
                                     t.current_workload <= o.current_workload
                          /\ OnlyWorkloadOf({b.assigned_technician_id})
                     ELSE /\ b.assigned_technician_id = 0
                          /\ OnlyWorkloadOf({})

\* C20: a booking added without assigned_technician_id is assigned to an available
\* technician whose current_workload is minimal among the available ones, and exactly
\* that technician's current_workload goes up by 1; when no technician is available the
\* booking is stored unassigned and no workload changes; a technician that is not
\* available is never assigned.
C20_AssignsLeastLoadedAvailable == [][C20_Step]_vars

\* C20 witness: the booking just added went to an available technician although a
\* technician with a lower workload exists that is not available.
C20_Witness ==
    /\ request.handler = "handle_add_booking" /\ request.status = 200
    /\ \E b \in garage_bookings : \E t \in AvailableTechnicians :
          /\ b.id = next_id.bookings - 1
          /\ request.rows = {t.id}
          /\ b.assigned_technician_id = t.id
          /\ \E o \in technicians \ AvailableTechnicians :
                o.current_workload < t.current_workload - 1

\* ---------------------------------------------------------------- C19
C19_State ==
    /\ \A v \in vehicles : \E c \in customers : c.id = v.customer_id
    /\ \A s \in services : \E v \in vehicles : v.id = s.vehicle_id

C19_Step ==
    /\ \A c \in CustomerIds :
          (\E token \in RequestTokens : handle_delete_customer(token, c)) =>
              /\ \A v \in vehicles' : v.customer_id # c
              /\ \A s \in services' : \A v \in vehicles : v.customer_id = c => s.vehicle_id # v.id
              /\ \A b \in garage_bookings' : b.customer_id # c
              /\ \A cu \in customer_users' : cu.customer_id # c
              /\ \A cs \in customer_sessions' : cs.customer_id # c
    /\ \A v \in VehicleIds :
          (\E token \in RequestTokens : handle_delete_vehicle(token, v)) =>
              \A s \in services' : s.vehicle_id # v

\* C19: after handle_delete_customer(c) no vehicle, service, booking, customer account
\* or customer session referring to c remains, after handle_delete_vehicle(v) no service
\* referring to v remains, and in every reachable state each vehicle references an
\* existing customer and each service an existing vehicle.
C19_DeleteRemovesChildren == []C19_State /\ [][C19_Step]_vars

\* ---------------------------------------------------------------- C21
\* C21: in app1.py, after any sequence of create, update and delete requests on
\* clients, bookings and payments, every booking references an existing client and
\* every payment an existing booking; a booking or payment is created only for a
\* parent that exists, a client that has bookings is not deleted and a booking that
\* has payments is not deleted.
C21_Referenced ==
    /\ \A b \in bookings : \E c \in clients : c.id = b.client_id
    /\ \A p \in payments : \E b \in bookings : b.id = p.booking_id

C21_Step ==
    /\ \A b \in bookings' \ bookings : \E c \in clients : c.id = b.client_id
    /\ \A p \in payments' \ payments : \E b \in bookings : b.id = p.booking_id
    /\ \A c \in clients : (\E b \in bookings : b.client_id = c.id) => \E d \in clients' : d.id = c.id
    /\ \A b \in bookings : (\E p \in payments : p.booking_id = b.id) => \E d \in bookings' : d.id = b.id

C21_ChildrenKeepTheirParents == []C21_Referenced /\ [][C21_Step]_vars

\* A client was deleted while another client still has a booking with a payment.
C21_Witness ==
    /\ clients # {}
    /\ \A c \in clients : c.id # 1
    /\ \E b \in bookings, p \in payments : p.booking_id = b.id

\* ---------------------------------------------------------------- C22
\* The step is a reset-password request that was answered with success.
C22_Success ==
    /\ app_users' # app_users
    /\ app_response'.status = 200
    /\ app_response'.message =
           <<"Password has been reset successfully. You can now login with your new password.", 0>>

\* C22: a reset token issued by forgot-password changes the password at most once
\* and only within 1 hour of its issue: a password change by reset is made with a
\* token that was issued to that user less than RESET_TOKEN_SECONDS ago, has made no
\* change before and is the last one issued to that user; a rejected reset leaves
\* password_hash, failed_login_attempts and account_locked_until as they were.
C22_Step ==
    /\ C22_Success =>
          \E u \in DOMAIN app_users :
              LET token == app_users[u].reset_token
              IN  /\ app_users'[u] # app_users[u]
                  /\ token \in DOMAIN reset_history
                  /\ reset_history[token].user = u
                  /\ reset_history[token].used = 0
                  /\ now < reset_history[token].at + RESET_TOKEN_SECONDS
                  /\ \A later \in DOMAIN reset_history :
                         reset_history[later].user = u => later <= token
    /\ app_response'.status = 400 =>
          \A u \in DOMAIN app_users :
              /\ app_users'[u].password_hash = app_users[u].password_hash
              /\ app_users'[u].failed_login_attempts = app_users[u].failed_login_attempts
              /\ app_users'[u].account_locked_until = app_users[u].account_locked_until
    /\ \A u \in DOMAIN app_users :
          app_users'[u].password_hash # app_users[u].password_hash => C22_Success

C22_ResetTokenWorksOnceWithinTheHour == [][C22_Step]_vars

\* One token has changed the password; a later one, presented when it was an hour
\* old, is rejected as expired and the count of failed logins is still there.
C22_Witness ==
    /\ app_response.message = <<"Reset token has expired. Please request a new one.", 0>>
    /\ \E t1, t2 \in DOMAIN reset_history :
          /\ t1 < t2
          /\ reset_history[t1].used = 1
          /\ reset_history[t2].used = 0
          /\ app_users[reset_history[t2].user].reset_token = t2
          /\ app_users[reset_history[t2].user].failed_login_attempts > 0

\* ---------------------------------------------------------------- C23
\* C23: in update_service, an update that sets status to completed on a service whose
\* stored status is not completed sets completed_date to the current time, whatever
\* completed_date the request carries; an update that sets status to completed on a
\* completed service changes completed_date only to a value the request carries;
\* the fields of ServiceUpdate that the request does not carry are left unchanged.
C23_Step ==
    (api_response'.op = "update_service" /\ api_response'.status = 200 /\ now' = now) =>
        LET id == api_response'.service_id
            body == api_response'.body
            old == api_services[id]
            new == api_services'[id]
            completes == "status" \in DOMAIN body /\ body["status"] = "completed"
        IN  /\ (completes /\ old.status # "completed") => new.completed_date = utcnow
            /\ (completes /\ old.status = "completed") =>
                   new.completed_date = IF "completed_date" \in DOMAIN body
                                        THEN body["completed_date"] ELSE old.completed_date
            /\ \A f \in {"status", "technician", "completed_date"} \ DOMAIN body :
                   (f = "completed_date" /\ completes /\ old.status # "completed")
                   \/ new[f] = old[f]
            /\ \A other \in DOMAIN api_services \ {id} : api_services'[other] = api_services[other]

C23_CompletedDateIsStamped == [][C23_Step]_vars

\* A pending service was completed by a request that carried a date of its own, and
\* holds the time of the request.
C23_Witness ==
    /\ now > 0
    /\ api_response.op = "update_service"
    /\ api_response.status = 200
    /\ "completed_date" \in DOMAIN api_response.body
    /\ api_response.body["completed_date"] = "12:00"
    /\ "technician" \notin DOMAIN api_response.body
    /\ api_services[api_response.service_id].completed_date = utcnow
    /\ api_services[api_response.service_id].technician = "Ann"

\* ---------------------------------------------------------------- C24
\* The rows of a table that belong to a customer.
C24_Own(table, customer_id) == {r.id : r \in {x \in table : x.customer_id = customer_id}}

\* What C24 asks of the answer to a portal request that carries the token.
C24_Answer(answer, token, table) ==
    LET bound == /\ token \in DOMAIN issued
                 /\ issued[token].kind = "customer"
                 /\ now < issued[token].at + SESSION_SECONDS
    IN  /\ (bound /\ \E c \in customers : c.id = issued[token].id) =>
               /\ answer.status = 200
               /\ answer.rows = C24_Own(table, issued[token].id)
        /\ ~bound => answer.status = 401 /\ answer.rows = {}
        /\ answer.status \in {200, 401}
        /\ answer.status = 401 => answer.rows = {}
        /\ answer.status = 200 => bound /\ answer.rows = C24_Own(table, issued[token].id)

\* C24: my-vehicles and my-bookings return exactly the rows whose customer_id is the
\* customer the presented customer token is bound to, never a row of another customer,
\* and answer 401 with no data when the token is missing, unknown or expired; a token
\* of the admin login never validates as a customer token, and a customer token
\* never validates as an admin token. (A token whose customer was deleted is answered
\* 401 with no data.)
C24_PortalReturnsOwnRowsOnly ==
    \A token \in RequestTokens :
        /\ C24_Answer(my_vehicles(token), token, vehicles)
        /\ C24_Answer(my_bookings(token), token, garage_bookings)
        /\ (token \in DOMAIN issued /\ issued[token].kind = "admin") =>
               verify_customer_session(token) = None
        /\ (token \in DOMAIN issued /\ issued[token].kind = "customer") =>
               verify_session(token) = None

\* The customer with two of the four vehicles asked for them and got exactly those.
C24_Witness ==
    /\ request.handler = "handle_customer_vehicles"
    /\ request.status = 200
    /\ request.rows = {1, 2}
    /\ \E v \in vehicles : v.id \notin request.rows
    /\ request.token \in DOMAIN issued
    /\ issued[request.token].kind = "customer"

\* ---------------------------------------------------------------- C25
\* C25: when handle_add_booking answers 400, no booking is stored and the
\* current_workload of every technician is what it was before the request.
C25_Step ==
    (request'.handler = "handle_add_booking" /\ request'.status = 400) =>
        /\ garage_bookings' = garage_bookings
        /\ technicians' = technicians

C25_FailedAddBookingChangesNothing == [][C25_Step]_vars

\* ---------------------------------------------------------------- C26
\* Each technician's current_workload is the number of bookings assigned to them.
C26_Counted(table, rows) ==
    \A t \in table :
        t.current_workload = Cardinality({b \in rows : b.assigned_technician_id = t.id})

\* C26: from a state in which each technician's current_workload equals the number
\* of bookings assigned to that technician, every add-booking, update-booking and
\* delete-booking request leads to such a state again, and current_workload is never
\* negative.
C26_Step ==
    /\ \A t \in technicians' : t.current_workload >= 0
    /\ (/\ C26_Counted(technicians, garage_bookings)
        /\ request'.handler \in {"handle_add_booking", "handle_update_booking",
                                 "handle_delete_booking"})
       => C26_Counted(technicians', garage_bookings')

C26_WorkloadCountsBookings == [][C26_Step]_vars

\* ---------------------------------------------------------------- C27
\* The step locks the account: its account_locked_until lies in the future after the
\* step and did not before.
C27_BecomesLocked(id) ==
    /\ now' = now
    /\ app_users'[id].account_locked_until > now
    /\ ~(app_users[id].account_locked_until > now)

\* C27: every time an account becomes locked, at least 5 wrong-password attempts for
\* it have been made since the latest of its last successful login, its last password
\* reset and the expiry of its previous lock.
C27_Step == \A id \in DOMAIN app_users : C27_BecomesLocked(id) => wrong_attempts'[id] >= MAX_FAILED_LOGINS

C27_LockNeedsFiveFreshFailures == [][C27_Step]_vars

\* ---------------------------------------------------------------- C28
\* The step commits a login that failed on the password.
C28_Commits(r) ==
    /\ in_flight[r].pc = "commit"
    /\ in_flight'[r].pc = "done"
    /\ ~in_flight[r].grant

\* C28: of the wrong-password logins for one user that are served concurrently,
\* every one that commits raises the stored failed_login_attempts by exactly one, so
\* at most 5 wrong passwords are evaluated against the account before it is locked.
C28_Step ==
    \A r \in 1..MaxRequests :
        C28_Commits(r) =>
            app_users'[in_flight[r].id].failed_login_attempts =
                app_users[in_flight[r].id].failed_login_attempts + 1

C28_AtMostFiveEvaluated == \A id \in DOMAIN app_users : wrong_attempts[id] <= MAX_FAILED_LOGINS

C28_NoIncrementIsLost == []C28_AtMostFiveEvaluated /\ [][C28_Step]_vars

====
